---------------------------- MODULE Spec2Model ----------------------------
(***************************************************************************)
(* Request authentication and session management of the stock-analysis     *)
(* WebUI: the in-memory session store (web/session.py), the credential     *)
(* resolver and auth gate (web/auth.py), the router's gate and response    *)
(* policy (web/router.py) and the handlers that consult the gate again     *)
(* (web/handlers.py).                                                      *)
(*                                                                         *)
(* Time is an integer clock `now` (datetime.now()); one call of a store    *)
(* method reads the clock at one instant.  Session ids are the integers    *)
(* 1, 2, ... handed out in order: secrets.token_urlsafe(32) never repeats  *)
(* a value it has issued.  0 is the empty cookie value / no token.         *)
(*                                                                         *)
(* Specifications:                                                         *)
(*   SpecStore  the store's methods called one at a time                   *)
(*   SpecConc   the statements of the store's methods, two threads         *)
(*   Spec       one connection, every route, requests served in turn       *)
(*   SpecSeq    one connection, login / logout / pages, clock advancing    *)
(*   SpecAuth   one connection, every credential store and header kind     *)
(*   SpecBasic  one connection, cookies and Basic-Auth, clock advancing    *)
(*   SpecVerify verify_credentials and login called on every store         *)
(*   SpecFail   one connection while the credential store fails            *)
(*   SpecRace   two connections whose router and handler steps interleave  *)
(*   SpecCookie _parse_cookie called on every short Cookie header           *)
(*   SpecSnap   one connection while accounts are changed and deleted       *)
(*   SpecKeep   one keep-alive connection serving request after request     *)
(***************************************************************************)
EXTENDS Integers, FiniteSets, Sequences, TLC

\* ------------------------------------------------------------------ bounds
MaxTime == 2

MaxSessions == 2

\* timedelta(hours=24) in clock units of 24 hours
SessionTimeout == 1

\* accounts ever created
MaxUsers == 2

\* characters of a Cookie header
MaxLen == 6

\* Set-Cookie lines a connection's header buffer holds between requests
MaxBuffer == 3

\* -------------------------------------------------------------- data model
NoToken == 0

\* a session id the store never issued (a stale or forged cookie value)
UnknownToken == MaxSessions + 1

\* the ids a caller can present once n ids have been issued: an id cannot be
\* presented before it is issued
Presentable(n) == (1 .. n) \cup {UnknownToken}

\* Python's None, as the result of a lookup
None == [none |-> TRUE]

\* the (user_id, username, is_admin) triples create_session is called with
\* in the store-level specification
StoreArgs ==
  { [user_id |-> 0, username |-> "admin", is_admin |-> TRUE],
    [user_id |-> 1, username |-> "alice", is_admin |-> FALSE],
    [user_id |-> 2, username |-> "bob",   is_admin |-> TRUE] }

\* ------------------------------------------------- SessionManager (pure)
Remove(S, tok) == [t \in (DOMAIN S) \ {tok} |-> S[t]]

\* mutant: the role flag is not stored (every session a non-admin)
NewSession_DropsAdmin(user_id, username, is_admin, t) ==
  [ user_id     |-> user_id,
    username    |-> username,
    is_admin    |-> FALSE,
    created_at  |-> t,
    last_access |-> t ]

\* the dict create_session stores under the new session id
NewSession(user_id, username, is_admin, t) ==
  [ user_id     |-> user_id,
    username    |-> username,
    is_admin    |-> is_admin,
    created_at  |-> t,
    last_access |-> t ]

\* mutant: creating a session sweeps the expired ones out of the store
create_session_Sweeps(S, tok, user_id, username, is_admin, t) ==
  (tok :> NewSession(user_id, username, is_admin, t))
    @@ [k \in {j \in DOMAIN S : t - S[j].last_access <= SessionTimeout} |-> S[k]]

create_session(S, tok, user_id, username, is_admin, t) ==
  (tok :> NewSession(user_id, username, is_admin, t)) @@ S

\* mutant: expiry is measured from creation, not from the last access
Expired_FromCreation(sess, t) == t - sess.created_at > SessionTimeout

\* mutant: a session is expired as soon as the timeout has elapsed
Expired_AtTimeout(sess, t) == t - sess.last_access >= SessionTimeout

\* datetime.now() - session['last_access'] > self._session_timeout
Expired(sess, t) == t - sess.last_access > SessionTimeout

\* mutant: an expired session is reported absent but its entry is kept
get_session_KeepsExpired(S, tok, t) ==
  IF tok = NoToken \/ tok \notin DOMAIN S
    THEN [store |-> S, result |-> None]
    ELSE IF Expired(S[tok], t)
      THEN [store |-> S, result |-> None]
      ELSE LET renewed == [S[tok] EXCEPT !.last_access = t]
           IN  [store |-> [S EXCEPT ![tok] = renewed], result |-> renewed]

\* get_session: the store afterwards and the value returned
get_session(S, tok, t) ==
  IF tok = NoToken \/ tok \notin DOMAIN S
    THEN [store |-> S, result |-> None]
    ELSE IF Expired(S[tok], t)
      THEN [store |-> Remove(S, tok), result |-> None]
      ELSE LET renewed == [S[tok] EXCEPT !.last_access = t]
           IN  [store |-> [S EXCEPT ![tok] = renewed], result |-> renewed]

delete_session(S, tok) ==
  IF tok \in DOMAIN S THEN Remove(S, tok) ELSE S

\* A header value is a sequence of characters.  str.split(sep): the pieces
\* between the separators, empty pieces included.  str.strip(): without
\* the white space at both ends.
\* mutant: the pairs are compared as they are cut, white space included
_parse_cookie_NoStrip(cookie_header, key) ==
  LET RECURSIVE split(_, _)
      split(s, sep) ==
        LET at == {i \in 1 .. Len(s) : s[i] = sep} IN
          IF at = {} THEN <<s>>
          ELSE LET i == CHOOSE j \in at : \A k \in at : j <= k
               IN  <<SubSeq(s, 1, i - 1)>> \o split(SubSeq(s, i + 1, Len(s)), sep)
      startswith(s, prefix) ==
        Len(s) >= Len(prefix) /\ SubSeq(s, 1, Len(prefix)) = prefix
      cookies == split(cookie_header, ";")
      hits == {i \in 1 .. Len(cookies) :
                 startswith(cookies[i], key \o <<"=">>)}
  IN IF cookie_header = <<>> THEN None
     ELSE IF hits = {} THEN None
     ELSE LET cookie == cookies[CHOOSE i \in hits : \A k \in hits : i <= k]
          IN  [value |-> SubSeq(cookie, Len(key) + 2, Len(cookie))]

\* _parse_cookie: None, or [value |-> the text after "key=" in the first
\* stripped piece that starts with it]
_parse_cookie(cookie_header, key) ==
  LET RECURSIVE split(_, _)
      split(s, sep) ==
        LET at == {i \in 1 .. Len(s) : s[i] = sep} IN
          IF at = {} THEN <<s>>
          ELSE LET i == CHOOSE j \in at : \A k \in at : j <= k
               IN  <<SubSeq(s, 1, i - 1)>> \o split(SubSeq(s, i + 1, Len(s)), sep)
      strip(s) ==
        LET ink == {i \in 1 .. Len(s) : s[i] # " "} IN
          IF ink = {} THEN <<>>
          ELSE SubSeq(s, CHOOSE i \in ink : \A k \in ink : i <= k,
                         CHOOSE i \in ink : \A k \in ink : i >= k)
      startswith(s, prefix) ==
        Len(s) >= Len(prefix) /\ SubSeq(s, 1, Len(prefix)) = prefix
      cookies == split(cookie_header, ";")
      hits == {i \in 1 .. Len(cookies) :
                 startswith(strip(cookies[i]), key \o <<"=">>)}
  IN IF cookie_header = <<>> THEN None
     ELSE IF hits = {} THEN None
     ELSE LET cookie == strip(cookies[CHOOSE i \in hits : \A k \in hits : i <= k])
          IN  [value |-> SubSeq(cookie, Len(key) + 2, Len(cookie))]

\* ------------------------------------------------------ UserService
\* The credential store: username -> [id, password, enabled, is_admin].
\* A password is kept as the plain text that verify_password accepts.
Usernames == {"admin", "alice"}

Passwords == {"pw1", "pw2"}

\* list_users(include_disabled=True): every account, disabled ones included
list_users(U) == DOMAIN U

\* mutant: a disabled account still verifies
verify_user_IgnoresDisabled(U, username, password) ==
  IF username \notin DOMAIN U THEN None
  ELSE IF U[username].password # password THEN None
  ELSE [id |-> U[username].id, username |-> username,
        is_admin |-> U[username].is_admin]

verify_user(U, username, password) ==
  IF username \notin DOMAIN U THEN None
  ELSE IF ~U[username].enabled THEN None
  ELSE IF U[username].password # password THEN None
  ELSE [id |-> U[username].id, username |-> username,
        is_admin |-> U[username].is_admin]

\* ------------------------------------------------------------ WebAuth
\* the configured single-user credential; "" is an unset value
NoLegacy == [username |-> "", password |-> ""]

\* mutant: a username alone makes the legacy credential configured
_is_legacy_auth_enabled_UsernameOnly(L) == L.username # ""

_is_legacy_auth_enabled(L) == L.username # "" /\ L.password # ""

\* mutant: only the accounts that are enabled turn authentication on
enabled_EnabledAccountsOnly(U, L) ==
  IF {u \in DOMAIN U : U[u].enabled} # {} THEN TRUE
  ELSE _is_legacy_auth_enabled(L)

enabled(U, L) ==
  IF list_users(U) # {} THEN TRUE ELSE _is_legacy_auth_enabled(L)

Guest == [user_id |-> 0, username |-> "guest", is_admin |-> FALSE]

\* mutant: the legacy credential is tried before the credential store
verify_credentials_LegacyFirst(U, L, username, password) ==
  LET user == verify_user(U, username, password) IN
    IF _is_legacy_auth_enabled(L)
         /\ username = L.username /\ password = L.password
      THEN [user_id |-> 0, username |-> username, is_admin |-> TRUE]
    ELSE IF user # None
      THEN [user_id |-> user.id, username |-> user.username,
            is_admin |-> user.is_admin]
    ELSE None

verify_credentials(U, L, username, password) ==
  LET user == verify_user(U, username, password) IN
    IF user # None
      THEN [user_id |-> user.id, username |-> user.username,
            is_admin |-> user.is_admin]
    ELSE IF _is_legacy_auth_enabled(L)
            /\ username = L.username /\ password = L.password
      THEN [user_id |-> 0, username |-> username, is_admin |-> TRUE]
    ELSE None

\* The Authorization header of a request, by how far parse_basic_auth
\* gets with it:
\*   "absent"     no header
\*   "scheme"     does not start with "Basic " (another scheme)
\*   "malformed"  base64.b64decode raises
\*   "utf8"       the decoded bytes are not UTF-8: bytes.decode raises
\*   "nocolon"    the decoded text has no ':': the unpacking of
\*                split(':', 1) raises
\*   "basic"      "Basic " + base64(username + ":" + password)
\* username and password are what the text before and after the first
\* colon of the payload is, when there is such text.
NoAuth == [kind |-> "absent", username |-> "", password |-> ""]

BadAuth == [kind |-> "malformed", username |-> "", password |-> ""]

BasicAuth(u, p) == [kind |-> "basic", username |-> u, password |-> p]

\* "Bearer " + base64(u + ":" + p)
OtherScheme(u, p) == [kind |-> "scheme", username |-> u, password |-> p]

NonUtf8 == [kind |-> "utf8", username |-> "", password |-> ""]

\* "Basic " + base64(u)
NoColon(u) == [kind |-> "nocolon", username |-> u, password |-> ""]

\* mutant: the payload is decoded whatever the scheme is
parse_basic_auth_AnyScheme(h) ==
  IF h.kind = "absent" THEN None
  ELSE IF h.kind \in {"malformed", "utf8", "nocolon"} THEN None
  ELSE [username |-> h.username, password |-> h.password]

parse_basic_auth(h) ==
  IF h.kind \in {"absent", "scheme"} THEN None
  ELSE IF h.kind \in {"malformed", "utf8", "nocolon"} THEN None
  ELSE [username |-> h.username, password |-> h.password]

\* get_session_from_request: the cookie header carries session id `cookie`
\* (NoToken: no session_id cookie)
get_session_from_request(S, cookie, t) ==
  IF cookie = NoToken
    THEN [store |-> S, result |-> None]
    ELSE get_session(S, cookie, t)

SessionUser(sess) ==
  [user_id |-> sess.user_id, username |-> sess.username,
   is_admin |-> sess.is_admin]

\* mutant: the Authorization header is tried before the session cookie
check_auth_BasicFirst(S, n, U, L, t, cookie, auth) ==
  IF ~enabled(U, L)
    THEN [store |-> S, issued |-> n, result |-> Guest, cookie |-> NoToken]
    ELSE
      LET credentials == parse_basic_auth(auth)
          user_info == IF credentials = None THEN None
                       ELSE verify_credentials(U, L, credentials.username,
                                               credentials.password)
          g == get_session_from_request(S, cookie, t)
      IN IF user_info # None
           THEN [store |-> create_session(S, n + 1, user_info.user_id,
                                          user_info.username,
                                          user_info.is_admin, t),
                 issued |-> n + 1, result |-> user_info, cookie |-> n + 1]
         ELSE IF g.result # None
           THEN [store |-> g.store, issued |-> n,
                 result |-> SessionUser(g.result), cookie |-> NoToken]
         ELSE [store |-> g.store, issued |-> n, result |-> None,
               cookie |-> NoToken]

\* mutant: verified Basic-Auth credentials authenticate the request but
\* are not promoted to a session
check_auth_NoPromotion(S, n, U, L, t, cookie, auth) ==
  IF ~enabled(U, L)
    THEN [store |-> S, issued |-> n, result |-> Guest, cookie |-> NoToken]
    ELSE
      LET g == get_session_from_request(S, cookie, t) IN
      IF g.result # None
        THEN [store |-> g.store, issued |-> n,
              result |-> SessionUser(g.result), cookie |-> NoToken]
        ELSE
          LET credentials == parse_basic_auth(auth) IN
          [store |-> g.store, issued |-> n,
           result |-> IF credentials = None THEN None
                      ELSE verify_credentials(U, L, credentials.username,
                                              credentials.password),
           cookie |-> NoToken]

\* mutant: a session's role is looked up in the credential store on every
\* check
check_auth_RederivesRole(S, n, U, L, t, cookie, auth) ==
  IF ~enabled(U, L)
    THEN [store |-> S, issued |-> n, result |-> Guest, cookie |-> NoToken]
    ELSE
      LET g == get_session_from_request(S, cookie, t) IN
      IF g.result # None
        THEN [store |-> g.store, issued |-> n,
              result |-> [SessionUser(g.result) EXCEPT !.is_admin =
                            /\ g.result.username \in DOMAIN U
                            /\ U[g.result.username].is_admin],
              cookie |-> NoToken]
        ELSE
          LET credentials == parse_basic_auth(auth)
              user_info == IF credentials = None THEN None
                           ELSE verify_credentials(U, L, credentials.username,
                                                   credentials.password)
          IN IF user_info # None
               THEN [store |-> create_session(g.store, n + 1, user_info.user_id,
                                              user_info.username,
                                              user_info.is_admin, t),
                     issued |-> n + 1, result |-> user_info, cookie |-> n + 1]
               ELSE [store |-> g.store, issued |-> n, result |-> None,
                     cookie |-> NoToken]

\* mutant: with authentication disabled the guest gets a session too
check_auth_GuestSession(S, n, U, L, t, cookie, auth) ==
  IF ~enabled(U, L)
    THEN [store |-> create_session(S, n + 1, Guest.user_id, Guest.username,
                                   Guest.is_admin, t),
          issued |-> n + 1, result |-> Guest, cookie |-> n + 1]
    ELSE
      LET g == get_session_from_request(S, cookie, t) IN
      IF g.result # None
        THEN [store |-> g.store, issued |-> n,
              result |-> SessionUser(g.result), cookie |-> NoToken]
        ELSE
          LET credentials == parse_basic_auth(auth)
              user_info == IF credentials = None THEN None
                           ELSE verify_credentials(U, L, credentials.username,
                                                   credentials.password)
          IN IF user_info # None
               THEN [store |-> create_session(g.store, n + 1, user_info.user_id,
                                              user_info.username,
                                              user_info.is_admin, t),
                     issued |-> n + 1, result |-> user_info, cookie |-> n + 1]
               ELSE [store |-> g.store, issued |-> n, result |-> None,
                     cookie |-> NoToken]

\* check_auth: the store and the id counter afterwards, the identity
\* returned (None: not authenticated) and the session id put in a
\* Set-Cookie header (NoToken: none)
check_auth(S, n, U, L, t, cookie, auth) ==
  IF ~enabled(U, L)
    THEN [store |-> S, issued |-> n, result |-> Guest, cookie |-> NoToken]
    ELSE
      LET g == get_session_from_request(S, cookie, t) IN
      IF g.result # None
        THEN [store |-> g.store, issued |-> n,
              result |-> SessionUser(g.result), cookie |-> NoToken]
        ELSE
          LET credentials == parse_basic_auth(auth)
              user_info == IF credentials = None THEN None
                           ELSE verify_credentials(U, L, credentials.username,
                                                   credentials.password)
          IN IF user_info # None
               THEN [store |-> create_session(g.store, n + 1, user_info.user_id,
                                              user_info.username,
                                              user_info.is_admin, t),
                     issued |-> n + 1, result |-> user_info, cookie |-> n + 1]
               ELSE [store |-> g.store, issued |-> n, result |-> None,
                     cookie |-> NoToken]

\* mutant: login answers with the identity and a cookie but stores no session
login_StoresNothing(S, n, U, L, t, username, password) ==
  LET user_info == verify_credentials(U, L, username, password) IN
    IF user_info # None
      THEN [store |-> S, issued |-> n + 1, result |-> user_info,
            cookie |-> n + 1]
      ELSE [store |-> S, issued |-> n, result |-> None, cookie |-> NoToken]

\* login: as check_auth's Basic-Auth branch, for the login form's values
login(S, n, U, L, t, username, password) ==
  LET user_info == verify_credentials(U, L, username, password) IN
    IF user_info # None
      THEN [store |-> create_session(S, n + 1, user_info.user_id,
                                     user_info.username, user_info.is_admin, t),
            issued |-> n + 1, result |-> user_info, cookie |-> n + 1]
      ELSE [store |-> S, issued |-> n, result |-> None, cookie |-> NoToken]

\* logout: the session it finds for the request ("session" in the code),
\* as an identity
logout_session(S, cookie, t) ==
  LET g == get_session_from_request(S, cookie, t) IN
    IF g.result = None THEN None ELSE SessionUser(g.result)

\* mutant: logout only clears the cookie and leaves the session in the store
logout_KeepsSession(S, cookie, t) ==
  get_session_from_request(S, cookie, t).store

\* mutant: logout ends every session of the user who logs out
logout_EveryDevice(S, cookie, t) ==
  LET g == get_session_from_request(S, cookie, t) IN
    IF g.result # None /\ cookie # NoToken
      THEN [k \in {j \in DOMAIN g.store :
                     g.store[j].username # g.result.username} |-> g.store[k]]
      ELSE g.store

\* logout: the store afterwards (the clearing Set-Cookie is always sent)
logout(S, cookie, t) ==
  LET g == get_session_from_request(S, cookie, t) IN
    IF g.result # None /\ cookie # NoToken
      THEN delete_session(g.store, cookie)
      ELSE g.store

\* check_auth raises for these inputs when the UserService methods in D
\* raise: `enabled` calls list_users first; verify_user is called when
\* authentication is enabled, no session is found and the header parses
check_auth_raises(S, U, L, t, cookie, auth, D) ==
  \/ "list_users" \in D
  \/ /\ "verify_user" \in D
     /\ enabled(U, L)
     /\ get_session_from_request(S, cookie, t).result = None
     /\ parse_basic_auth(auth) # None

\* create_user: None when the username exists, else a new enabled account
\* with the next auto-increment id
create_user(U, n, username, password, is_admin) ==
  IF username \in DOMAIN U
    THEN [users |-> U, issued |-> n, ok |-> FALSE]
    ELSE [users |-> (username :> [id |-> n + 1, password |-> password,
                                  enabled |-> TRUE, is_admin |-> is_admin]) @@ U,
          issued |-> n + 1, ok |-> TRUE]

UserIds(U) == {U[u].id : u \in DOMAIN U}

NameOfId(U, id) == CHOOSE u \in DOMAIN U : U[u].id = id

\* update_user(user_id, password=...), False when no such account
update_user_password(U, id, password) ==
  IF id \notin UserIds(U) THEN [users |-> U, ok |-> FALSE]
  ELSE [users |-> [U EXCEPT ![NameOfId(U, id)].password = password], ok |-> TRUE]

\* update_user(user_id, is_admin=...)
update_user_role(U, id, is_admin) ==
  IF id \notin UserIds(U) THEN [users |-> U, ok |-> FALSE]
  ELSE [users |-> [U EXCEPT ![NameOfId(U, id)].is_admin = is_admin], ok |-> TRUE]

\* update_user(user_id, enabled=...)
update_user_status(U, id, on) ==
  IF id \notin UserIds(U) THEN [users |-> U, ok |-> FALSE]
  ELSE [users |-> [U EXCEPT ![NameOfId(U, id)].enabled = on], ok |-> TRUE]

\* delete_user(user_id), False when no such account
delete_user(U, id) ==
  IF id \notin UserIds(U) THEN [users |-> U, ok |-> FALSE]
  ELSE [users |-> [u \in (DOMAIN U) \ {NameOfId(U, id)} |-> U[u]], ok |-> TRUE]

\* -------------------------------------------------------------- Router
\* the request paths of the model: every registered route and one path
\* that has none
Paths ==
  { "/", "/update", "/login", "/admin/users", "/health", "/analysis",
    "/tasks", "/task", "/api/login", "/api/logout", "/api/admin/users",
    "/api/admin/users/password", "/api/admin/users/role",
    "/api/admin/users/status", "/api/users/password",
    "/bot/feishu", "/bot/dingtalk", "/nosuch" }

\* path.startswith("/bot/")
BotPaths == {"/bot/feishu", "/bot/dingtalk"}

\* Router.dispatch: public_paths
PublicPathsGet == {"/health", "/login", "/api/login", "/api/logout"}

\* Router.dispatch_post: public_paths
PublicPathsPost == {"/login", "/api/login", "/api/logout"}

\* Router.dispatch: api_paths_json_401
ApiPathsJson401 == {"/analysis", "/task", "/tasks"}

\* create_default_router and Router.match: the handler registered for
\* (path, method), "none" when there is none
match(path, method) ==
  CASE method = "GET" /\ path = "/"                 -> "handle_index"
    [] method = "POST" /\ path = "/update"         -> "handle_update"
    [] method = "GET" /\ path = "/login"           -> "handle_login_page"
    [] method = "GET" /\ path = "/admin/users"     -> "handle_user_manage"
    [] method = "GET" /\ path = "/health"          -> "handle_health"
    [] method = "GET" /\ path = "/analysis"        -> "handle_analysis"
    [] method = "GET" /\ path = "/tasks"           -> "handle_tasks"
    [] method = "GET" /\ path = "/task"            -> "handle_task_status"
    [] method = "POST" /\ path = "/api/login"      -> "handle_login"
    [] method = "GET" /\ path = "/api/logout"      -> "handle_logout"
    [] method = "POST" /\ path = "/api/admin/users" -> "handle_create_user"
    [] method = "GET" /\ path = "/api/admin/users" -> "handle_get_user_detail"
    [] method = "POST" /\ path = "/api/admin/users/password"
                                                   -> "handle_update_user_password"
    [] method = "POST" /\ path = "/api/admin/users/role"
                                                   -> "handle_update_user_role"
    [] method = "POST" /\ path = "/api/admin/users/status"
                                                   -> "handle_update_user_status"
    [] method = "POST" /\ path = "/api/users/password"
                                                   -> "handle_update_user_password"
    [] method = "POST" /\ path \in BotPaths        -> "bot_placeholder"
    [] OTHER                                       -> "none"

\* A connection: the request it is serving and what has been done for it.
\*   gate    "none" | "exempt" (public path) | "bot" | "off" (auth not
\*           enabled) | "pass" | "fail" | "raise" (an exception left the
\*           auth block): what the router did about check_auth
\*   user    the identity the router's check_auth returned, or None
\*   handler the handler invoked ("none": no handler invoked)
\*   huser   the identity the handler's own check_auth, login or logout
\*           resolved, or None
\*   did     the operation the handler performed ("none": none)
\*   by      who wrote the response: "gate", "router", "handler" or
\*           "server" (do_GET / do_POST after dispatch raised)
\*   error   the "error" message of the JSON body the gate or handle_login
\*           wrote, in English ("": the response is another one)
\*   cookies the Set-Cookie values sent, in order: a session id, or
\*           NoToken for the clearing cookie
IdleConn ==
  [ pc |-> "idle", method |-> "", path |-> "", cookie |-> NoToken,
    auth |-> NoAuth, gate |-> "none", user |-> None, handler |-> "none",
    huser |-> None, did |-> "none", status |-> 0, body |-> "none",
    by |-> "none", error |-> "", login_url |-> FALSE, challenge |-> FALSE,
    location |-> "", cookies |-> <<>> ]

Request(method, path, cookie, auth) ==
  [IdleConn EXCEPT !.method = method, !.path = path, !.cookie = cookie,
                   !.auth = auth]

SetCookie(tok) == IF tok = NoToken THEN <<>> ELSE <<tok>>

\* JsonResponse({"success": False, "error": "需要登录", "login_url": "/login"}, 401)
LoginRequiredJson(q) ==
  [q EXCEPT !.pc = "done", !.gate = "fail", !.status = 401, !.body = "json",
            !.by = "gate", !.error = "login required", !.login_url = TRUE]

\* mutant: the refusal is the redirect to the login page whatever the mode
send_auth_required_AlwaysRedirect(q, redirect_to_login) ==
  [q EXCEPT !.pc = "done", !.gate = "fail", !.status = 302,
            !.body = "none", !.by = "gate", !.location = "/login"]

\* send_auth_required: 302 to /login, or 401 with a Basic challenge
send_auth_required(q, redirect_to_login) ==
  IF redirect_to_login
    THEN [q EXCEPT !.pc = "done", !.gate = "fail", !.status = 302,
                   !.body = "none", !.by = "gate", !.location = "/login"]
    ELSE [q EXCEPT !.pc = "done", !.gate = "fail", !.status = 401,
                   !.body = "html", !.by = "gate", !.challenge = TRUE]

\* _send_not_found
NotFound(q) ==
  [q EXCEPT !.pc = "done", !.status = 404, !.body = "html", !.by = "router"]

\* mutant: an exception in the auth block is answered as a failed check
ServerError_AsRefusal(q) == send_auth_required(q, FALSE)

\* WebRequestHandler.do_GET / do_POST: dispatch raised, send_error(500)
ServerError(q) ==
  [q EXCEPT !.pc = "done", !.gate = "raise", !.status = 500,
            !.body = "html", !.by = "server"]

\* Router._send_error: the handler raised, HtmlResponse(..., 500)
RouterError(q) ==
  [q EXCEPT !.pc = "done", !.status = 500, !.body = "html", !.by = "router"]

\* route.handler(query, request_handler) or route.handler(query) is next
ToHandler(q, h) == [q EXCEPT !.pc = "handler", !.handler = h]

\* mutant: a request the gate refuses goes on to route matching
GateStep_LetsThrough(S, n, U, L, t, q, json401) ==
  IF ~enabled(U, L)
    THEN [store |-> S, issued |-> n, conn |-> [q EXCEPT !.gate = "off"]]
    ELSE
      LET r == check_auth(S, n, U, L, t, q.cookie, q.auth) IN
      [store |-> r.store, issued |-> r.issued,
       conn |-> IF r.result = None
                  THEN [q EXCEPT !.gate = "fail"]
                  ELSE [q EXCEPT !.gate = "pass", !.user = r.result,
                                 !.cookies = SetCookie(r.cookie)]]

\* the router's "检查认证" block: the gate's verdict on request q.
\* json401: whether the API paths get the JSON 401 (dispatch does,
\* dispatch_post does not)
GateStep(S, n, U, L, t, q, json401) ==
  IF ~enabled(U, L)
    THEN [store |-> S, issued |-> n, conn |-> [q EXCEPT !.gate = "off"]]
    ELSE
      LET r == check_auth(S, n, U, L, t, q.cookie, q.auth) IN
      IF r.result = None
        THEN [store |-> r.store, issued |-> r.issued,
              conn |-> IF json401 /\ q.path \in ApiPathsJson401
                         THEN LoginRequiredJson(q)
                         ELSE send_auth_required(q, list_users(U) # {})]
        ELSE [store |-> r.store, issued |-> r.issued,
              conn |-> [q EXCEPT !.gate = "pass", !.user = r.result,
                                 !.cookies = SetCookie(r.cookie)]]

\* after the gate: match the route, 404 or go on to the handler
RouteStep(g, method) ==
  IF g.conn.pc = "done" THEN g
  ELSE IF match(g.conn.path, method) = "none"
    THEN [g EXCEPT !.conn = NotFound(g.conn)]
    ELSE [g EXCEPT !.conn = ToHandler(g.conn, match(g.conn.path, method))]

\* Router.dispatch(request_handler, "GET") up to the handler call
dispatch(S, n, U, L, t, q) ==
  IF q.path \in PublicPathsGet /\ match(q.path, "GET") # "none"
    THEN [store |-> S, issued |-> n,
          conn |-> ToHandler([q EXCEPT !.gate = "exempt"], match(q.path, "GET"))]
    ELSE RouteStep(GateStep(S, n, U, L, t, q, TRUE), "GET")

\* Router.dispatch_post(request_handler) up to the handler call
dispatch_post(S, n, U, L, t, q) ==
  IF q.path \in BotPaths
    THEN [store |-> S, issued |-> n,
          conn |-> ToHandler([q EXCEPT !.gate = "bot"], "handle_webhook")]
  ELSE IF q.path \in PublicPathsPost
    THEN [store |-> S, issued |-> n,
          conn |-> IF match(q.path, "POST") # "none"
                     THEN ToHandler([q EXCEPT !.gate = "exempt"],
                                    match(q.path, "POST"))
                     ELSE NotFound([q EXCEPT !.gate = "exempt"])]
  ELSE RouteStep(GateStep(S, n, U, L, t, q, FALSE), "POST")

\* ------------------------------------------------------------------ state
VARIABLES
  sessions,   \* SessionManager._sessions: session id -> session dict
  nextTok,    \* number of session ids issued so far
  now,        \* the clock
  op,         \* store-level runs: the last store operation and its outcome
  purged,     \* store-level runs: ids whose entry an expired get removed
  thr,        \* statement-level runs: each request thread's position in the
              \* SessionManager method it executes
  heap,       \* statement-level runs: the session dict objects, by session id
              \* (an object outlives the removal of its key from the store)
  users,      \* UserService: username -> [id, password, enabled, is_admin]
  nextUid,    \* UserService: the last auto-increment account id handed out
  legacy,     \* Config: WEBUI_USERNAME / WEBUI_PASSWORD
  down,       \* UserService: the methods that raise when called now (the
              \* database behind them is unreachable)
  buffer,     \* per connection, the Set-Cookie values that the requests
              \* served earlier on it left in the request handler's
              \* _headers_buffer (always empty when every request comes on
              \* a connection of its own)
  conn        \* request-level runs: per connection, the request being served
              \* and the response written for it

storeVars == <<sessions, nextTok, now>>

traceVars == <<op, purged>>

concVars == <<thr, heap>>

webVars == <<users, nextUid, legacy, down, buffer, conn>>

vars ==
  <<sessions, nextTok, now, op, purged, thr, heap, users, nextUid, legacy,
    down, buffer, conn>>

\* the connections of the server, one request thread each
Conns == {"c1", "c2"}

NoWeb ==
  /\ users = <<>>
  /\ nextUid = 0
  /\ legacy = NoLegacy
  /\ down = {}
  /\ buffer = [c \in Conns |-> <<>>]
  /\ conn = [c \in Conns |-> IdleConn]

\* the request threads of ThreadingHTTPServer that are inside SessionManager
Threads == {"t1", "t2"}

IdleThread ==
  [pc |-> "idle", kind |-> "none", tok |-> NoToken, res |-> None, exc |-> FALSE]

NoArgs == [user_id |-> 0, username |-> "", is_admin |-> FALSE]

NoOp ==
  [kind |-> "none", tok |-> NoToken, at |-> 0, args |-> NoArgs,
   pre |-> None, res |-> None]

\* ------------------------------------------- store-level specification
StoreInit ==
  /\ sessions = <<>>
  /\ nextTok = 0
  /\ now = 0
  /\ op = NoOp
  /\ purged = {}
  /\ thr = [t \in Threads |-> IdleThread]
  /\ heap = <<>>
  /\ NoWeb

Stored(S, tok) == IF tok \in DOMAIN S THEN S[tok] ELSE None

StoreCreate(a) ==
  /\ nextTok < MaxSessions
  /\ LET tok == nextTok + 1 IN
       /\ sessions' = create_session(sessions, tok, a.user_id, a.username,
                                     a.is_admin, now)
       /\ nextTok' = tok
       /\ op' = [kind |-> "create", tok |-> tok, at |-> now, args |-> a,
                 pre |-> None, res |-> None]
  /\ UNCHANGED <<now, purged, concVars, webVars>>

StoreGet(tok) ==
  /\ LET r == get_session(sessions, tok, now) IN
       /\ sessions' = r.store
       /\ op' = [kind |-> "get", tok |-> tok, at |-> now, args |-> NoArgs,
                 pre |-> Stored(sessions, tok), res |-> r.result]
       /\ purged' = purged \cup ((DOMAIN sessions) \ (DOMAIN r.store))
  /\ UNCHANGED <<nextTok, now, concVars, webVars>>

StoreDelete(tok) ==
  /\ sessions' = delete_session(sessions, tok)
  /\ op' = [kind |-> "delete", tok |-> tok, at |-> now, args |-> NoArgs,
            pre |-> Stored(sessions, tok), res |-> None]
  /\ UNCHANGED <<nextTok, now, purged, concVars, webVars>>

Tick ==
  /\ now < MaxTime
  /\ now' = now + 1
  /\ UNCHANGED <<sessions, nextTok, traceVars, concVars, webVars>>

StoreNext ==
  \/ \E a \in StoreArgs : StoreCreate(a)
  \/ \E tok \in Presentable(nextTok) \cup {NoToken} : StoreGet(tok)
  \/ \E tok \in Presentable(nextTok) : StoreDelete(tok)
  \/ Tick

SpecStore == StoreInit /\ [][StoreNext]_vars

\* --------------------------------------------------- store-level claims

\* C4: a get on a session that was never accessed since its creation at T,
\* made later than T + SessionTimeout, returns None and removes the entry;
\* an id whose entry was removed this way is never a key of the store again
\* and every later get on it returns None.
C4_ExpiredGetPurges ==
  /\ (op.kind = "get" /\ op.pre # None
        /\ op.pre.last_access = op.pre.created_at
        /\ op.at > op.pre.created_at + SessionTimeout)
       => (op.res = None /\ op.tok \notin DOMAIN sessions /\ op.tok \in purged)
  /\ \A tok \in purged :
       /\ tok \notin DOMAIN sessions
       /\ (op.kind = "get" /\ op.tok = tok) => op.res = None

\* C4 witness: a second get on an id that an expired get has purged
C4_Witness ==
  /\ op.kind = "get" /\ op.tok \in purged
  /\ op.pre = None /\ op.res = None

\* C5: create stamps last_access with the creation time, and a get made no
\* later than last_access + SessionTimeout succeeds and sets last_access to
\* the time of the get, so expiry is measured from the last successful
\* access and not from creation.
C5_SlidingRenewal ==
  /\ op.kind = "create" =>
       /\ sessions[op.tok].created_at = op.at
       /\ sessions[op.tok].last_access = op.at
  /\ (op.kind = "get" /\ op.pre # None
        /\ op.at <= op.pre.last_access + SessionTimeout)
       => /\ op.res # None
          /\ op.res.last_access = op.at
          /\ op.tok \in DOMAIN sessions
          /\ sessions[op.tok].last_access = op.at

\* C5 witness: a get succeeds later than creation time + SessionTimeout
C5_Witness ==
  /\ op.kind = "get" /\ op.res # None
  /\ op.at > op.res.created_at + SessionTimeout

\* C6: a get that directly follows the create of the same id (no other
\* store operation between them, no more than SessionTimeout elapsed) returns
\* a session whose user_id, username and is_admin are create's arguments
\* and whose last_access >= created_at.
C6_CreateThenGet ==
  [][ (op.kind = "create" /\ op'.kind = "get" /\ op'.tok = op.tok
        /\ op'.at <= op.at + SessionTimeout)
      => /\ op'.res # None
         /\ op'.res.user_id = op.args.user_id
         /\ op'.res.username = op.args.username
         /\ op'.res.is_admin = op.args.is_admin
         /\ op'.res.last_access >= op'.res.created_at ]_vars

\* C6 witness: a get at the very instant of the session's creation returns it
C6_Witness ==
  /\ op.kind = "get" /\ op.res # None
  /\ op.res.created_at = op.at
  /\ op.res.is_admin /\ op.res.user_id = 2

\* C22: a get returns a session exactly when its id is a key of the store
\* and now - last_access <= SessionTimeout; a successful get returns the
\* stored session with last_access = now and the other four fields as
\* they were; and the last_access of every stored session is the time of
\* the step when the step created it or got it successfully, and is
\* otherwise what it was before the step.
C22_ValidIffFresh ==
  [][ /\ (op' # op /\ op'.kind = "get") =>
           LET tok == op'.tok
               fresh == /\ tok \in DOMAIN sessions
                        /\ now - sessions[tok].last_access <= SessionTimeout
           IN /\ op'.res # None <=> fresh
              /\ fresh =>
                   /\ tok \in DOMAIN sessions'
                   /\ op'.res = sessions'[tok]
                   /\ op'.res =
                        [sessions[tok] EXCEPT !.last_access = now]
      /\ \A tok \in DOMAIN sessions' :
           sessions'[tok].last_access =
             IF tok \notin DOMAIN sessions THEN now
             ELSE IF op' # op /\ op'.kind = "get" /\ op'.tok = tok THEN now
             ELSE sessions[tok].last_access ]_vars

\* C22 witness: a get made exactly SessionTimeout after an earlier
\* successful get, later than creation + SessionTimeout, succeeds
C22_Witness ==
  /\ op.kind = "get" /\ op.res # None
  /\ op.pre.last_access > op.pre.created_at
  /\ op.at = op.pre.last_access + SessionTimeout
  /\ op.res.last_access = op.at
  /\ op.res.created_at = op.pre.created_at

\* C25: an entry leaves the store only in a delete of its id or in a get
\* of its id that finds it expired; create, operations on other ids and
\* the passing of time remove nothing, so an expired session nobody looks
\* up stays stored.
C25_LazyExpiryOnly ==
  [][\A tok \in (DOMAIN sessions) \ (DOMAIN sessions') :
       /\ op' # op /\ op'.tok = tok /\ now' = now
       /\ \/ op'.kind = "delete"
          \/ op'.kind = "get" /\ Expired(sessions[tok], now)]_vars

\* C25 witness: at the end of the clock's range the first session, never
\* accessed and long expired, is still stored, after a later session has
\* been created, got and deleted
C25_Witness ==
  /\ now = MaxTime /\ 1 \in DOMAIN sessions
  /\ sessions[1].last_access = 0 /\ Expired(sessions[1], now)
  /\ op.kind = "delete" /\ op.tok = 2 /\ op.at = now /\ op.pre # None
  /\ op.pre.last_access > op.pre.created_at

\* ------------------------------------- statement-level specification
\* SessionManager holds no lock (session.py:28-31) and ThreadingHTTPServer
\* runs each connection on a thread of its own (server.py:157-160), so the
\* statements of two calls interleave.  A thread's local `session` is a
\* reference to the dict object heap[tok].

\* the identity fields play no part in the statements' interleaving
ConcArgs == {a \in StoreArgs : a.user_id = 1}

ConcInit ==
  /\ sessions = <<>>
  /\ nextTok = 0
  /\ now = 0
  /\ op = NoOp
  /\ purged = {}
  /\ thr = [t \in Threads |-> IdleThread]
  /\ heap = <<>>
  /\ NoWeb

Return(t, value) ==
  thr' = [thr EXCEPT ![t] = [@ EXCEPT !.pc = "idle", !.res = value]]

\* an uncaught KeyError leaves the method
Raise(t) ==
  thr' = [thr EXCEPT ![t] = [@ EXCEPT !.pc = "idle", !.res = None, !.exc = TRUE]]

Goto(t, label) == thr' = [thr EXCEPT ![t].pc = label]

\* a thread enters get_session or delete_session
ConcCall(t, kind, tok) ==
  /\ thr[t].pc = "idle"
  /\ ~thr[t].exc
  /\ thr' = [thr EXCEPT ![t] =
              [pc |-> IF kind = "get" THEN "get_check" ELSE "del_check",
               kind |-> kind, tok |-> tok, res |-> None, exc |-> FALSE]]
  /\ UNCHANGED <<storeVars, traceVars, heap, webVars>>

\* create_session: the one store statement self._sessions[session_id] = {...}
ConcCreate(t, a) ==
  /\ thr[t].pc = "idle"
  /\ ~thr[t].exc
  /\ nextTok < MaxSessions
  /\ LET tok == nextTok + 1 IN
       /\ sessions' = create_session(sessions, tok, a.user_id, a.username,
                                     a.is_admin, now)
       /\ heap' = (tok :> NewSession(a.user_id, a.username, a.is_admin, now)) @@ heap
       /\ nextTok' = tok
       /\ thr' = [thr EXCEPT ![t] =
                   [pc |-> "idle", kind |-> "create", tok |-> tok,
                    res |-> None, exc |-> FALSE]]
  /\ UNCHANGED <<now, traceVars, webVars>>

\* session.py:66  if not session_id or session_id not in self._sessions
GetCheck(t) ==
  /\ thr[t].pc = "get_check"
  /\ IF thr[t].tok = NoToken \/ thr[t].tok \notin DOMAIN sessions
       THEN Return(t, None)
       ELSE Goto(t, "get_load")
  /\ UNCHANGED <<storeVars, traceVars, heap, webVars>>

\* session.py:69  session = self._sessions[session_id]
GetLoad(t) ==
  /\ thr[t].pc = "get_load"
  /\ IF thr[t].tok \in DOMAIN sessions
       THEN Goto(t, "get_expiry")
       ELSE Raise(t)
  /\ UNCHANGED <<storeVars, traceVars, heap, webVars>>

\* session.py:72  if datetime.now() - session['last_access'] > timeout
GetExpiry(t) ==
  /\ thr[t].pc = "get_expiry"
  /\ IF Expired(heap[thr[t].tok], now)
       THEN Goto(t, "get_del")
       ELSE Goto(t, "get_renew")
  /\ UNCHANGED <<storeVars, traceVars, heap, webVars>>

\* session.py:74-75  del self._sessions[session_id]; return None
GetDel(t) ==
  /\ thr[t].pc = "get_del"
  /\ IF thr[t].tok \in DOMAIN sessions
       THEN /\ sessions' = Remove(sessions, thr[t].tok)
            /\ Return(t, None)
       ELSE /\ Raise(t)
            /\ UNCHANGED sessions
  /\ UNCHANGED <<nextTok, now, traceVars, heap, webVars>>

\* session.py:78-79  session['last_access'] = datetime.now(); return session
GetRenew(t) ==
  /\ thr[t].pc = "get_renew"
  /\ LET tok == thr[t].tok
         renewed == [heap[tok] EXCEPT !.last_access = now]
     IN  /\ heap' = [heap EXCEPT ![tok] = renewed]
         /\ sessions' = IF tok \in DOMAIN sessions
                          THEN [sessions EXCEPT ![tok] = renewed]
                          ELSE sessions
         /\ Return(t, renewed)
  /\ UNCHANGED <<nextTok, now, traceVars, webVars>>

\* session.py:83  if session_id in self._sessions
DelCheck(t) ==
  /\ thr[t].pc = "del_check"
  /\ IF thr[t].tok \in DOMAIN sessions
       THEN Goto(t, "del_del")
       ELSE Return(t, None)
  /\ UNCHANGED <<storeVars, traceVars, heap, webVars>>

\* session.py:84  del self._sessions[session_id]
DelDel(t) ==
  /\ thr[t].pc = "del_del"
  /\ IF thr[t].tok \in DOMAIN sessions
       THEN /\ sessions' = Remove(sessions, thr[t].tok)
            /\ Return(t, None)
       ELSE /\ Raise(t)
            /\ UNCHANGED sessions
  /\ UNCHANGED <<nextTok, now, traceVars, heap, webVars>>

ConcNext ==
  \/ \E t \in Threads, tok \in Presentable(nextTok) \cup {NoToken} :
        ConcCall(t, "get", tok)
  \/ \E t \in Threads, tok \in Presentable(nextTok) : ConcCall(t, "delete", tok)
  \/ \E t \in Threads, a \in ConcArgs : ConcCreate(t, a)
  \/ \E t \in Threads : GetCheck(t)
  \/ \E t \in Threads : GetLoad(t)
  \/ \E t \in Threads : GetExpiry(t)
  \/ \E t \in Threads : GetDel(t)
  \/ \E t \in Threads : GetRenew(t)
  \/ \E t \in Threads : DelCheck(t)
  \/ \E t \in Threads : DelDel(t)
  \/ Tick

SpecConc == ConcInit /\ [][ConcNext]_vars

\* C7: under every interleaving of create, get and delete by the request
\* threads, no store operation ends by raising an exception (the first
\* conjunct of the claim: every operation completes without raising).
C7_NoOperationRaises == \A t \in Threads : ~thr[t].exc


\* ------------------------------------------ request-level specification
\* the Cookie and Authorization headers the client of connection c sends
\* with its next requests (BaseHTTPRequestHandler.headers)
Present(c, cookie, auth) ==
  /\ conn[c].pc # "handler"
  /\ <<cookie, auth>> # <<conn[c].cookie, conn[c].auth>>
  /\ conn' = [conn EXCEPT ![c] = Request("", "", cookie, auth)]
  /\ UNCHANGED <<storeVars, traceVars, concVars, users, nextUid, legacy, down, buffer>>

\* WebRequestHandler.do_GET -> Router.dispatch, up to the handler call
DoGet(c, path) ==
  /\ conn[c].pc # "handler"
  /\ LET d == dispatch(sessions, nextTok, users, legacy, now,
                       Request("GET", path, conn[c].cookie, conn[c].auth)) IN
       /\ d.conn.gate \notin {"exempt", "bot"} =>
            ~check_auth_raises(sessions, users, legacy, now,
                               conn[c].cookie, conn[c].auth, down)
       /\ d.issued <= MaxSessions
       /\ sessions' = d.store
       /\ nextTok' = d.issued
       /\ conn' = [conn EXCEPT ![c] = d.conn]
  /\ UNCHANGED <<now, traceVars, concVars, users, nextUid, legacy, down, buffer>>

\* WebRequestHandler.do_POST -> Router.dispatch_post, up to the handler call
DoPost(c, path) ==
  /\ conn[c].pc # "handler"
  /\ LET d == dispatch_post(sessions, nextTok, users, legacy, now,
                            Request("POST", path, conn[c].cookie, conn[c].auth)) IN
       /\ d.conn.gate \notin {"exempt", "bot"} =>
            ~check_auth_raises(sessions, users, legacy, now,
                               conn[c].cookie, conn[c].auth, down)
       /\ d.issued <= MaxSessions
       /\ sessions' = d.store
       /\ nextTok' = d.issued
       /\ conn' = [conn EXCEPT ![c] = d.conn]
  /\ UNCHANGED <<now, traceVars, concVars, users, nextUid, legacy, down, buffer>>

\* do_GET / do_POST when an exception leaves the router's auth block: a
\* UserService method called by `enabled` or check_auth raises (the
\* session lookup has run unless list_users raised before it)
GateRaises(c, method, path) ==
  /\ conn[c].pc # "handler"
  /\ LET q == Request(method, path, conn[c].cookie, conn[c].auth)
         d == IF method = "GET"
                THEN dispatch(sessions, nextTok, users, legacy, now, q)
                ELSE dispatch_post(sessions, nextTok, users, legacy, now, q)
     IN /\ d.conn.gate \notin {"exempt", "bot"}
        /\ check_auth_raises(sessions, users, legacy, now, conn[c].cookie,
                             conn[c].auth, down)
        /\ sessions' = IF "list_users" \in down THEN sessions
                       ELSE get_session_from_request(sessions,
                                                     conn[c].cookie, now).store
        /\ conn' = [conn EXCEPT ![c] = ServerError(q)]
  /\ UNCHANGED <<nextTok, now, traceVars, concVars, users, nextUid, legacy, down, buffer>>

\* the handler invoked for connection c is h
Running(c, h) == conn[c].pc = "handler" /\ conn[c].handler = h

\* the handler's own self.auth_manager.check_auth(request_handler)
HandlerAuth(c) ==
  check_auth(sessions, nextTok, users, legacy, now, conn[c].cookie, conn[c].auth)

\* the response a handler returns, sent by response.send(request_handler)
Respond(q, status, body, did) ==
  [q EXCEPT !.pc = "done", !.status = status, !.body = body, !.did = did,
            !.by = "handler"]

\* a handler that ran check_auth: the store and the buffered Set-Cookie
\* of that check, and the response
Checked(c, h, q) ==
  /\ ~check_auth_raises(sessions, users, legacy, now, conn[c].cookie,
                        conn[c].auth, down)
  /\ h.issued <= MaxSessions
  /\ sessions' = h.store
  /\ nextTok' = h.issued
  /\ conn' = [conn EXCEPT ![c] =
                [q EXCEPT !.huser = h.result,
                          !.cookies = conn[c].cookies \o SetCookie(h.cookie)]]

\* PageHandler.handle_index
HandleIndex(c) ==
  /\ Running(c, "handle_index")
  /\ Checked(c, HandlerAuth(c), Respond(conn[c], 200, "html", "index"))
  /\ UNCHANGED <<now, traceVars, concVars, users, nextUid, legacy, down, buffer>>

\* PageHandler.handle_update
HandleUpdate(c) ==
  /\ Running(c, "handle_update")
  /\ LET h == HandlerAuth(c) IN
       Checked(c, h, IF h.result = None
                       THEN Respond(conn[c], 401, "json", "none")
                       ELSE Respond(conn[c], 200, "html", "update"))
  /\ UNCHANGED <<now, traceVars, concVars, users, nextUid, legacy, down, buffer>>

\* the statuses a handler without request_handler can answer with
PlainStatuses(h) ==
  CASE h = "handle_login_page"  -> {200}
    [] h = "handle_health"      -> {200}
    [] h = "handle_analysis"    -> {200, 400, 500}
    [] h = "handle_tasks"       -> {200}
    [] h = "handle_task_status" -> {200, 400, 404}
    [] h = "handle_webhook"     -> {200, 500}
    [] OTHER                    -> {}

\* UserHandler.handle_login_page, ApiHandler.handle_health / handle_analysis
\* / handle_tasks / handle_task_status, BotHandler.handle_webhook: no
\* request_handler, no auth check
HandlePlain(c, status) ==
  /\ conn[c].pc = "handler"
  /\ status \in PlainStatuses(conn[c].handler)
  /\ conn' = [conn EXCEPT ![c] =
                Respond(conn[c], status,
                        IF conn[c].handler = "handle_login_page"
                          THEN "html" ELSE "json",
                        conn[c].handler)]
  /\ UNCHANGED <<storeVars, traceVars, concVars, users, nextUid, legacy, down, buffer>>

\* a handler whose check_auth raises: the router's `except` answers with
\* _send_error, after its second call of the handler failed as well
HandleRaises(c) ==
  /\ conn[c].pc = "handler"
  /\ conn[c].handler \notin {"handle_login", "handle_logout"}
  /\ PlainStatuses(conn[c].handler) = {}
  /\ check_auth_raises(sessions, users, legacy, now, conn[c].cookie,
                       conn[c].auth, down)
  /\ sessions' = IF "list_users" \in down THEN sessions
                 ELSE get_session_from_request(sessions, conn[c].cookie,
                                               now).store
  /\ conn' = [conn EXCEPT ![c] = RouterError(conn[c])]
  /\ UNCHANGED <<nextTok, now, traceVars, concVars, users, nextUid, legacy, down, buffer>>

\* mutant: an unknown username is answered differently from a wrong password
handle_login_RevealsUnknown(S, n, U, L, t, q, username, password) ==
  IF username = "" \/ password = ""
    THEN [store |-> S, issued |-> n,
          conn |-> [Respond(q, 400, "json", "none") EXCEPT
                      !.error = "username and password must not be empty"]]
    ELSE
      LET h == login(S, n, U, L, t, username, password) IN
        [store |-> h.store, issued |-> h.issued,
         conn |-> IF h.result # None
                    THEN [Respond(q, 200, "json", "login") EXCEPT
                            !.huser = h.result,
                            !.cookies = q.cookies \o SetCookie(h.cookie)]
                  ELSE IF username \notin DOMAIN U
                    THEN [Respond(q, 404, "json", "none") EXCEPT
                            !.error = "no such user"]
                    ELSE [Respond(q, 401, "json", "none") EXCEPT
                            !.error = "wrong username or password"]]

\* UserHandler.handle_login for the stripped form values username and
\* password: the store and the id counter afterwards and the response
handle_login(S, n, U, L, t, q, username, password) ==
  IF username = "" \/ password = ""
    THEN [store |-> S, issued |-> n,
          conn |-> [Respond(q, 400, "json", "none") EXCEPT
                      !.error = "username and password must not be empty"]]
    ELSE
      LET h == login(S, n, U, L, t, username, password) IN
        [store |-> h.store, issued |-> h.issued,
         conn |-> IF h.result # None
                    THEN [Respond(q, 200, "json", "login") EXCEPT
                            !.huser = h.result,
                            !.cookies = q.cookies \o SetCookie(h.cookie)]
                    ELSE [Respond(q, 401, "json", "none") EXCEPT
                            !.error = "wrong username or password"]]

\* UserHandler.handle_login called by the router
HandleLogin(c, username, password) ==
  /\ Running(c, "handle_login")
  /\ "verify_user" \in down => username = "" \/ password = ""
  /\ LET r == handle_login(sessions, nextTok, users, legacy, now, conn[c],
                           username, password) IN
       /\ r.issued <= MaxSessions
       /\ sessions' = r.store
       /\ nextTok' = r.issued
       /\ conn' = [conn EXCEPT ![c] = r.conn]
  /\ UNCHANGED <<now, traceVars, concVars, users, nextUid, legacy, down, buffer>>

\* UserHandler.handle_login when verify_user raises (the form values are
\* not empty): its own `except` answers 500 with a JSON body
LoginRaises(c) ==
  /\ Running(c, "handle_login")
  /\ "verify_user" \in down
  /\ conn' = [conn EXCEPT ![c] =
                [Respond(conn[c], 500, "json", "none") EXCEPT
                   !.error = "login failed"]]
  /\ UNCHANGED <<storeVars, traceVars, concVars, users, nextUid, legacy, down, buffer>>

\* UserHandler.handle_logout: logout, then RedirectResponse('/login')
HandleLogout(c) ==
  /\ Running(c, "handle_logout")
  /\ sessions' = logout(sessions, conn[c].cookie, now)
  /\ conn' = [conn EXCEPT ![c] =
                [Respond(conn[c], 302, "none", "logout") EXCEPT
                   !.huser = logout_session(sessions, conn[c].cookie, now),
                   !.location = "/login",
                   !.cookies = conn[c].cookies \o <<NoToken>>]]
  /\ UNCHANGED <<nextTok, now, traceVars, concVars, users, nextUid, legacy, down, buffer>>

\* mutant: any authenticated identity counts as an administrator
_require_admin_AnyUser(h) == h.result

\* UserHandler._require_admin: the check, with the identity cleared when
\* it is absent or not an administrator
_require_admin(h) ==
  IF h.result = None \/ ~h.result.is_admin THEN None ELSE h.result

\* JsonResponse({"success": False, "error": "需要管理员权限"}, 403)
Forbidden(q) == Respond(q, 403, "json", "none")

\* the id parameter of a request: missing, or a number
NoId == 0 - 1

\* UserHandler.handle_user_manage
HandleUserManage(c) ==
  /\ Running(c, "handle_user_manage")
  /\ LET h == HandlerAuth(c) IN
       Checked(c, h, IF _require_admin(h) = None
                       THEN Forbidden(conn[c])
                       ELSE Respond(conn[c], 200, "html", "list_users"))
  /\ UNCHANGED <<now, traceVars, concVars, users, nextUid, legacy, down, buffer>>

\* UserHandler.handle_create_user
HandleCreateUser(c, username, password, is_admin) ==
  /\ Running(c, "handle_create_user")
  /\ LET h == HandlerAuth(c)
         r == create_user(users, nextUid, username, password, is_admin) IN
       IF _require_admin(h) = None
         THEN /\ Checked(c, h, Forbidden(conn[c]))
              /\ UNCHANGED <<users, nextUid>>
       ELSE IF username = "" \/ password = ""
         THEN /\ Checked(c, h, Respond(conn[c], 400, "json", "none"))
              /\ UNCHANGED <<users, nextUid>>
       ELSE /\ r.issued <= MaxUsers
            /\ Checked(c, h, Respond(conn[c], IF r.ok THEN 200 ELSE 400,
                                     "json", "create_user"))
            /\ users' = r.users
            /\ nextUid' = r.issued
  /\ UNCHANGED <<now, traceVars, concVars, legacy, down, buffer>>

\* UserHandler.handle_get_user_detail
HandleGetUserDetail(c, id) ==
  /\ Running(c, "handle_get_user_detail")
  /\ LET h == HandlerAuth(c) IN
       Checked(c, h,
         IF _require_admin(h) = None THEN Forbidden(conn[c])
         ELSE IF id = NoId THEN Respond(conn[c], 400, "json", "none")
         ELSE IF id \notin UserIds(users)
           THEN Respond(conn[c], 404, "json", "get_user")
           ELSE Respond(conn[c], 200, "json", "get_user"))
  /\ UNCHANGED <<now, traceVars, concVars, users, nextUid, legacy, down, buffer>>

\* UserHandler.handle_update_user_password: registered for
\* /api/admin/users/password and for /api/users/password
HandleUpdateUserPassword(c, id, password) ==
  /\ Running(c, "handle_update_user_password")
  /\ LET h == HandlerAuth(c)
         target == IF id = NoId THEN h.result.user_id ELSE id
         r == update_user_password(users, target, password) IN
       IF h.result = None
         THEN /\ Checked(c, h, Respond(conn[c], 401, "json", "none"))
              /\ UNCHANGED users
       ELSE IF id # NoId /\ ~h.result.is_admin
         THEN /\ Checked(c, h, Forbidden(conn[c]))
              /\ UNCHANGED users
       ELSE IF password = ""
         THEN /\ Checked(c, h, Respond(conn[c], 400, "json", "none"))
              /\ UNCHANGED users
       ELSE /\ Checked(c, h, Respond(conn[c], IF r.ok THEN 200 ELSE 404,
                                     "json", "update_password"))
            /\ users' = r.users
  /\ UNCHANGED <<now, traceVars, concVars, nextUid, legacy, down, buffer>>

\* UserHandler.handle_update_user_role
HandleUpdateUserRole(c, id, is_admin) ==
  /\ Running(c, "handle_update_user_role")
  /\ LET h == HandlerAuth(c)
         r == update_user_role(users, id, is_admin) IN
       IF _require_admin(h) = None
         THEN /\ Checked(c, h, Forbidden(conn[c]))
              /\ UNCHANGED users
       ELSE IF id = NoId
         THEN /\ Checked(c, h, Respond(conn[c], 400, "json", "none"))
              /\ UNCHANGED users
       ELSE /\ Checked(c, h, Respond(conn[c], IF r.ok THEN 200 ELSE 404,
                                     "json", "update_role"))
            /\ users' = r.users
  /\ UNCHANGED <<now, traceVars, concVars, nextUid, legacy, down, buffer>>

\* UserHandler.handle_update_user_status
HandleUpdateUserStatus(c, id, on) ==
  /\ Running(c, "handle_update_user_status")
  /\ LET h == HandlerAuth(c)
         r == update_user_status(users, id, on) IN
       IF _require_admin(h) = None
         THEN /\ Checked(c, h, Forbidden(conn[c]))
              /\ UNCHANGED users
       ELSE IF id = NoId
         THEN /\ Checked(c, h, Respond(conn[c], 400, "json", "none"))
              /\ UNCHANGED users
       ELSE /\ Checked(c, h, Respond(conn[c], IF r.ok THEN 200 ELSE 404,
                                     "json", "update_status"))
            /\ users' = r.users
  /\ UNCHANGED <<now, traceVars, concVars, nextUid, legacy, down, buffer>>


\* an account row of UserService
Account(id, password, on, is_admin) ==
  [id |-> id, password |-> password, enabled |-> on, is_admin |-> is_admin]

\* the credential stores the server can start with: empty, the
\* administrator that init_admin.py creates, or that and one ordinary user
InitialUsers ==
  { <<>>,
    "admin" :> Account(1, "pw1", TRUE, TRUE),
    ("admin" :> Account(1, "pw1", TRUE, TRUE))
      @@ ("alice" :> Account(2, "pw1", TRUE, FALSE)) }

\* Config.webui_username / webui_password: unset, or set
InitialLegacy == {NoLegacy, [username |-> "admin", password |-> "pw1"]}

\* the Authorization headers a client sends
AuthHeaders ==
  { NoAuth, BadAuth, BasicAuth("admin", "pw1"), BasicAuth("alice", "pw1"),
    BasicAuth("alice", "pw2") }

WebInit ==
  /\ sessions = <<>>
  /\ nextTok = 0
  /\ now = 0
  /\ op = NoOp
  /\ purged = {}
  /\ thr = [t \in Threads |-> IdleThread]
  /\ heap = <<>>
  /\ users \in InitialUsers
  /\ nextUid = Cardinality(DOMAIN users)
  /\ legacy \in InitialLegacy
  /\ down = {}
  /\ buffer = [c \in Conns |-> <<>>]
  /\ conn = [c \in Conns |-> IdleConn]

\* one handler step of connection c; F holds the values the forms and
\* queries of the administration requests carry
Handle(c, F) ==
  \/ HandleIndex(c)
  \/ HandleUpdate(c)
  \/ \E status \in {200, 400, 404, 500} : HandlePlain(c, status)
  \/ \E u \in Usernames \cup {""}, p \in Passwords \cup {""} : HandleLogin(c, u, p)
  \/ HandleLogout(c)
  \/ HandleUserManage(c)
  \/ \E u \in F.names, p \in F.passwords, a \in F.roles : HandleCreateUser(c, u, p, a)
  \/ \E id \in F.ids : HandleGetUserDetail(c, id)
  \/ \E id \in F.ids, p \in F.passwords : HandleUpdateUserPassword(c, id, p)
  \/ \E id \in F.ids, a \in F.roles : HandleUpdateUserRole(c, id, a)
  \/ \E id \in F.ids, on \in F.states : HandleUpdateUserStatus(c, id, on)

\* the headers a client sends: an Authorization header alone, or a cookie
\* alone or with credentials
Headers(n) ==
  ({NoToken} \X AuthHeaders)
    \cup (Presentable(n) \X {NoAuth, BasicAuth("alice", "pw1")})

\* a request arrives on connection c and the router serves it
Arrive(c) ==
  \/ \E h \in Headers(nextTok) : Present(c, h[1], h[2])
  \/ \E path \in Paths : DoGet(c, path)
  \/ \E path \in Paths : DoPost(c, path)

\* the administration forms of the single-connection runs: the account
\* "alice" is created and passwords are changed
RouterForms ==
  [ names |-> {"alice", ""}, passwords |-> {"pw2", ""}, ids |-> {NoId, 2},
    roles |-> {FALSE}, states |-> {TRUE} ]

WebNext ==
  \/ Arrive("c1")
  \/ Handle("c1", RouterForms)

\* one connection serving requests one after another, all within the
\* lifetime of the sessions they create
Spec == WebInit /\ [][WebNext]_vars


\* ----------------------------------------- concurrent requests
\* the requests of the two-connection runs: the index page, the user
\* management page, login and logout
RaceGets == {"/", "/admin/users", "/api/logout"}

RacePosts == {"/api/login"}

\* the clients of the two-connection runs send a session cookie or nothing
RaceHeaders(n) == (Presentable(n) \cup {NoToken}) \X {NoAuth}

RaceInit ==
  /\ WebInit
  /\ DOMAIN users = {"admin", "alice"}
  /\ legacy = NoLegacy

\* one step of connection c in these runs
RaceStep(c) ==
  \/ \E h \in RaceHeaders(nextTok) : Present(c, h[1], h[2])
  \/ \E path \in RaceGets : DoGet(c, path)
  \/ \E path \in RacePosts : DoPost(c, path)
  \/ HandleIndex(c)
  \/ HandleUserManage(c)
  \/ \E u \in Usernames : HandleLogin(c, u, "pw1")
  \/ HandleLogout(c)

RaceNext ==
  \/ \E c \in Conns : RaceStep(c)
  \/ Tick

\* two connections (ThreadingHTTPServer: one thread each) whose requests
\* interleave between the router's auth check and the handler's own
SpecRace == RaceInit /\ [][RaceNext]_vars

SeqNext ==
  \/ RaceStep("c1")
  \/ Tick

\* the same requests on one connection, one after another, while the
\* clock advances
SpecSeq == RaceInit /\ [][SeqNext]_vars

\* ------------------------------------------------ request-level claims
\* a handler has been invoked for the request of connection c
Invoked(c) == conn[c].handler # "none"

\* the router is calling the handler for the request of connection c
Entering(c) == conn[c].pc = "handler"

\* the router ran the Auth Gate's check for the request of connection c
Gated(c) == conn[c].gate \in {"pass", "fail"}

\* POST requests under /bot/ are dispatched to the webhook handler
IsWebhook(c) == conn[c].method = "POST" /\ conn[c].path \in BotPaths

\* C1 as stated: with authentication enabled, a handler is invoked for a
\* request whose path is not on the allowlist only after the Auth Gate
\* passed it, for GET and POST and every path, those under /bot/ included;
\* a request the gate resolved as unauthenticated reaches no handler.
C1_GateBeforeEveryHandler ==
  \A c \in Conns :
    /\ (Entering(c) /\ enabled(users, legacy)
          /\ conn[c].path \notin PublicPathsGet)
         => conn[c].gate = "pass"
    /\ conn[c].gate = "fail" => ~Invoked(c)

\* C1 amended: the same, except for POST requests whose path starts with
\* /bot/, which go to the webhook handler without the Auth Gate.
C1_GateBeforeHandlerExceptWebhook ==
  \A c \in Conns :
    /\ (Entering(c) /\ enabled(users, legacy)
          /\ conn[c].path \notin PublicPathsGet /\ ~IsWebhook(c))
         => conn[c].gate = "pass"
    /\ (Entering(c) /\ IsWebhook(c)) => conn[c].gate = "bot"
    /\ conn[c].gate = "fail" => ~Invoked(c)

\* with authentication enabled, a POST to a gated path passed the gate
\* and its handler is being entered
C1_Witness ==
  \E c \in Conns :
    /\ conn[c].pc = "handler"
    /\ conn[c].method = "POST"
    /\ conn[c].path = "/update"
    /\ conn[c].gate = "pass"
    /\ enabled(users, legacy)

\* C2 as stated: for a request whose path is on the allowlist the router
\* never runs the Auth Gate's check and never answers with the gate's 401
\* or 302, whatever the method and whether or not a route is registered.
C2_AllowlistBeforeAuth ==
  \A c \in Conns :
    conn[c].path \in PublicPathsGet => (~Gated(c) /\ conn[c].by # "gate")

\* C10 as stated: with authentication enabled, an unauthenticated request
\* to /analysis, /task or /tasks gets 401 with the JSON body carrying
\* login_url, never a 302 or a Basic challenge, for GET and for POST.
C10_ApiPathsGetJson401 ==
  \A c \in Conns :
    (conn[c].gate = "fail" /\ conn[c].path \in ApiPathsJson401)
      => /\ conn[c].status = 401
         /\ conn[c].body = "json"
         /\ conn[c].login_url
         /\ ~conn[c].challenge
         /\ conn[c].location = ""

\* the handlers that start with _require_admin
AdminOnlyHandlers ==
  { "handle_user_manage", "handle_create_user", "handle_get_user_detail",
    "handle_update_user_role", "handle_update_user_status" }

\* connection c's handler returns in this step
Returns(c) == conn[c].pc = "handler" /\ conn'[c].pc = "done"

LoggedOut(c) == conn[c].pc = "done" /\ conn[c].did = "logout"

\* C3: when handle_logout returns for a request carrying cookie k, the
\* redirect is returned (nothing was raised), the clearing Set-Cookie is
\* the last cookie sent, k is no key of the store, and if k named no
\* session (second logout, unknown token, no cookie) the store is as it
\* was; from then on a request carrying only k resolves to nobody.
C3_LogoutThenAbsent ==
  [][/\ \A c \in Conns :
          (Returns(c) /\ conn[c].handler = "handle_logout")
            => /\ conn'[c].status = 302
               /\ conn'[c].cookies # <<>>
               /\ conn'[c].cookies[Len(conn'[c].cookies)] = NoToken
               /\ conn[c].cookie \notin DOMAIN sessions'
               /\ conn[c].cookie \notin DOMAIN sessions => sessions' = sessions
     /\ \A c \in Conns :
          (LoggedOut(c)' /\ enabled(users', legacy'))
            => check_auth(sessions', nextTok', users', legacy', now',
                          conn'[c].cookie, NoAuth).result = None]_vars

\* a logout carrying an issued session id found no session although
\* nothing can have expired yet: the id was logged out before, and this
\* is the second logout with the same cookie
C3_Witness ==
  \E c \in Conns :
    /\ LoggedOut(c)
    /\ conn[c].cookie \in 1 .. nextTok
    /\ conn[c].huser = None
    /\ now = 0

\* C8 as stated: a 403 is sent only to a request that is authenticated
\* when the handler makes its role check and whose identity is no
\* administrator, in every interleaving with logouts and expiries.
C8_ForbiddenOnlyWhenAuthenticated ==
  \A c \in Conns :
    conn[c].status = 403
      => (conn[c].huser # None /\ ~conn[c].huser.is_admin)


\* ------------------------------------------------ authentication runs
\* the credential stores of these runs: none, one or two accounts, each
\* enabled or disabled
AuthStores ==
  { <<>> }
    \cup { "admin" :> Account(1, "pw1", on, TRUE) : on \in BOOLEAN }
    \cup { ("admin" :> Account(1, "pw1", on, TRUE))
             @@ ("alice" :> Account(2, "pw1", on2, FALSE)) :
           on \in BOOLEAN, on2 \in BOOLEAN }

\* Config.webui_username / webui_password: both unset, both set (to the
\* name and password of the administrator's account, or of the ordinary
\* user's), or only the username set
AuthLegacy ==
  { NoLegacy, [username |-> "admin", password |-> "pw1"],
    [username |-> "alice", password |-> "pw1"],
    [username |-> "admin", password |-> ""] }

\* the headers of a request of these runs: an Authorization header alone
\* (none, each malformed kind, well-formed with right and wrong
\* credentials; "bob" is nobody's name), or a cookie alone, with invalid
\* credentials or with another user's
AuthRequests(n) ==
  ({NoToken}
     \X { NoAuth, BadAuth, NonUtf8, NoColon("admin"),
          OtherScheme("admin", "pw1"), BasicAuth("admin", "pw1"),
          BasicAuth("admin", "pw2"), BasicAuth("alice", "pw1"),
          BasicAuth("bob", "pw1") })
    \cup (Presentable(n)
            \X {NoAuth, BasicAuth("admin", "pw2"), BasicAuth("alice", "pw1")})

AuthInit ==
  /\ sessions = <<>>
  /\ nextTok = 0
  /\ now = 0
  /\ op = NoOp
  /\ purged = {}
  /\ thr = [t \in Threads |-> IdleThread]
  /\ heap = <<>>
  /\ users \in AuthStores
  /\ nextUid = Cardinality(DOMAIN users)
  /\ legacy \in AuthLegacy
  /\ down = {}
  /\ buffer = [c \in Conns |-> <<>>]
  /\ conn = [c \in Conns |-> IdleConn]

\* one step of the connection of these runs: GET /, POST /update and
\* POST /api/login with every value of the login form
AuthStep(c) ==
  \/ \E h \in AuthRequests(nextTok) : Present(c, h[1], h[2])
  \/ DoGet(c, "/")
  \/ \E path \in {"/update", "/api/login"} : DoPost(c, path)
  \/ HandleIndex(c)
  \/ HandleUpdate(c)
  \/ \E u \in Usernames \cup {"bob", ""}, p \in Passwords \cup {""} :
       HandleLogin(c, u, p)

\* one connection sending every kind of credentials to the gated pages and
\* the login endpoint, over every credential store, all within the lifetime
\* of the sessions created
SpecAuth == AuthInit /\ [][AuthStep("c1")]_vars


\* ------------------------------------------------ authentication claims
\* the path of the request of connection c is on no allowlist of the router
\* and is not one of the JSON/API paths
PagePath(c) ==
  conn[c].path \notin
    (PublicPathsGet \cup PublicPathsPost \cup BotPaths \cup ApiPathsJson401)

\* the headers of the request of connection c authenticate nobody
Unauthenticated(c) == HandlerAuth(c).result = None

\* C11: with authentication enabled, an unauthenticated request to a gated
\* path that is not a JSON/API path is answered by the gate, with 302 and
\* Location: /login when the credential store holds at least one account
\* (enabled or disabled), and with 401 and a WWW-Authenticate: Basic
\* challenge when it holds none.
C11_RedirectIffAccounts ==
  \A c \in Conns :
    (conn[c].method # "" /\ enabled(users, legacy) /\ PagePath(c) /\ Unauthenticated(c))
      => /\ conn[c].pc = "done"
         /\ conn[c].by = "gate"
         /\ IF DOMAIN users # {}
              THEN /\ conn[c].status = 302
                   /\ conn[c].location = "/login"
                   /\ ~conn[c].challenge
              ELSE /\ conn[c].status = 401
                   /\ conn[c].challenge
                   /\ conn[c].location = ""

\* C11 witness: the only account is disabled and a request with its
\* credentials is redirected to the login page
C11_Witness ==
  \E c \in Conns :
    /\ conn[c].method # "" /\ PagePath(c) /\ Unauthenticated(c)
    /\ DOMAIN users = {"admin"} /\ ~users["admin"].enabled
    /\ conn[c].auth = BasicAuth("admin", "pw1")
    /\ conn[c].status = 302 /\ conn[c].location = "/login"


\* the credential store holds an account, or both values of the legacy
\* credential are set
AccountsOrLegacy ==
  DOMAIN users # {} \/ (legacy.username # "" /\ legacy.password # "")

\* C12: isEnabled is true exactly when the credential store holds at least
\* one account (disabled ones counted) or the legacy credential has a
\* non-empty username and password; while it is false the router enforces
\* no gate, the check hands every request the guest identity whatever its
\* cookie and Authorization header are, and no session is created and no
\* cookie is set.
C12_DisabledMeansGuest ==
  /\ enabled(users, legacy) = AccountsOrLegacy
  /\ \A c \in Conns :
       conn[c].method # "" =>
         /\ (conn[c].gate = "off") = (~AccountsOrLegacy /\ conn[c].gate # "exempt")
         /\ ~AccountsOrLegacy =>
              /\ conn[c].by # "gate"
              /\ conn[c].user = None
              /\ conn[c].cookies = <<>>
              /\ conn[c].did \in {"index", "update"} => conn[c].huser = Guest
  /\ ~AccountsOrLegacy => sessions = <<>> /\ nextTok = 0

\* C12 witness: no account and only the legacy username set; a request with
\* an unknown session cookie and credentials is served as guest
C12_Witness ==
  \E c \in Conns :
    /\ users = <<>> /\ legacy = [username |-> "admin", password |-> ""]
    /\ conn[c].gate = "off"
    /\ conn[c].auth = BasicAuth("admin", "pw2")
    /\ conn[c].cookie = UnknownToken
    /\ conn[c].did \in {"index", "update"} /\ conn[c].huser = Guest


\* one connection logging in and asking for the index page with cookies and
\* Authorization headers of every kind, two accounts registered, while the
\* clock advances
SpecBasic ==
  RaceInit /\ [][
    \/ \E h \in AuthRequests(nextTok) : Present("c1", h[1], h[2])
    \/ DoGet("c1", "/")
    \/ DoPost("c1", "/api/login")
    \/ HandleIndex("c1")
    \/ \E u \in Usernames : HandleLogin("c1", u, "pw1")
    \/ Tick
  ]_vars

\* this step is the router's dispatch of the request of connection c, and
\* it ran the Auth Gate's check
RouterChecks(c) ==
  /\ conn[c].pc # "handler" /\ conn'[c].method # "" /\ now' = now
  /\ conn'[c].gate \notin {"none", "exempt", "bot", "off"}

\* this step is a handler of connection c that runs the Auth Gate's check
\* itself (every handler given the request but login and logout)
HandlerChecks(c) ==
  /\ conn[c].pc = "handler" /\ conn'[c].pc = "done"
  /\ conn[c].handler \notin {"handle_login", "handle_logout"}
  /\ PlainStatuses(conn[c].handler) = {}

\* the cookie of the request of connection c names a session that has not
\* expired
ValidSession(c) ==
  /\ conn[c].cookie \in DOMAIN sessions
  /\ ~Expired(sessions[conn[c].cookie], now)

\* C13: in a check with authentication enabled, a cookie naming a valid
\* session decides the result: the identity is the one stored in that
\* session whatever the Authorization header carries, no session is created
\* and no Set-Cookie is emitted.
C13_SessionBeforeBasic ==
  [][\A c \in Conns :
       (enabled(users, legacy) /\ ValidSession(c)) =>
         /\ RouterChecks(c) =>
              /\ conn'[c].gate = "pass"
              /\ conn'[c].user = SessionUser(sessions[conn[c].cookie])
              /\ conn'[c].cookies = <<>>
              /\ nextTok' = nextTok
              /\ DOMAIN sessions' = DOMAIN sessions
         /\ HandlerChecks(c) =>
              /\ conn'[c].huser = SessionUser(sessions[conn[c].cookie])
              /\ conn'[c].cookies = conn[c].cookies
              /\ nextTok' = nextTok
              /\ DOMAIN sessions' = DOMAIN sessions]_vars

\* C13 witness: a request with the administrator's session cookie and the
\* valid credentials of alice has been served as the administrator, after
\* the clock advanced, and no cookie was set
C13_Witness ==
  \E c \in Conns :
    /\ conn[c].pc = "done" /\ conn[c].did = "index"
    /\ conn[c].cookie \in DOMAIN sessions
    /\ sessions[conn[c].cookie].username = "admin"
    /\ conn[c].auth = BasicAuth("alice", "pw1")
    /\ conn[c].user # None /\ conn[c].user.username = "admin"
    /\ conn[c].huser # None /\ conn[c].huser.username = "admin"
    /\ conn[c].cookies = <<>>
    /\ now > 0


\* the identity the credentials of the Authorization header of connection c
\* verify as (None: they do not verify, or the header is not well-formed)
Verified(c) ==
  IF conn[c].auth.kind # "basic" THEN None
  ELSE verify_credentials(users, legacy, conn[c].auth.username,
                          conn[c].auth.password)

\* this step added exactly session nextTok', holding identity v
Promoted(v) ==
  /\ nextTok' = nextTok + 1
  /\ DOMAIN sessions' \ DOMAIN sessions = {nextTok'}
  /\ SessionUser(sessions'[nextTok']) = v

\* this step added no session
NoneCreated == nextTok' = nextTok /\ DOMAIN sessions' \subseteq DOMAIN sessions

\* C14: in a check with authentication enabled and no valid session, a
\* well-formed Basic-Auth header whose credentials verify makes the check
\* create one session holding the verified user_id, username and is_admin,
\* emit a Set-Cookie with its token and return that identity; credentials
\* that do not verify create no session, emit no cookie and give
\* Unauthenticated.  A session keeps its identity as long as it is stored,
\* and a request carrying only its cookie resolves to that identity while
\* the session is valid.
C14_BasicPromotion ==
  [][\A c \in Conns :
       /\ (enabled(users, legacy) /\ ~ValidSession(c)
             /\ conn[c].auth.kind = "basic" /\ Verified(c) # None) =>
            /\ RouterChecks(c) =>
                 /\ Promoted(Verified(c))
                 /\ conn'[c].gate = "pass"
                 /\ conn'[c].user = Verified(c)
                 /\ conn'[c].cookies = <<nextTok'>>
            /\ HandlerChecks(c) =>
                 /\ Promoted(Verified(c))
                 /\ conn'[c].huser = Verified(c)
                 /\ conn'[c].cookies = conn[c].cookies \o <<nextTok'>>
       /\ (enabled(users, legacy) /\ ~ValidSession(c)
             /\ conn[c].auth.kind = "basic" /\ Verified(c) = None) =>
            /\ RouterChecks(c) =>
                 /\ NoneCreated
                 /\ conn'[c].gate = "fail"
                 /\ conn'[c].user = None
                 /\ conn'[c].cookies = <<>>
            /\ HandlerChecks(c) =>
                 /\ NoneCreated
                 /\ conn'[c].huser = None
                 /\ conn'[c].cookies = conn[c].cookies
       /\ \A k \in DOMAIN sessions \cap DOMAIN sessions' :
            SessionUser(sessions'[k]) = SessionUser(sessions[k])
       /\ (enabled(users, legacy) /\ ValidSession(c) /\ conn[c].auth = NoAuth
             /\ RouterChecks(c)) =>
            conn'[c].user = SessionUser(sessions[conn[c].cookie])]_vars

\* C14 witness: a request with an expired session cookie and the valid
\* credentials of alice passed the gate; the session just created holds
\* alice's identity and its id is in the Set-Cookie
C14_Witness ==
  \E c \in Conns :
    /\ conn[c].pc = "handler" /\ conn[c].gate = "pass"
    /\ conn[c].auth = BasicAuth("alice", "pw1")
    /\ conn[c].cookie \in 1..nextTok /\ conn[c].cookie \notin DOMAIN sessions
    /\ conn[c].cookies = <<nextTok>>
    /\ nextTok \in DOMAIN sessions
    /\ sessions[nextTok].username = "alice" /\ ~sessions[nextTok].is_admin
    /\ sessions[nextTok].user_id = 2
    /\ conn[c].user = [user_id |-> 2, username |-> "alice", is_admin |-> FALSE]


\* ------------------------------------------- credential resolver runs
\* the (username, password) pairs given to verify_credentials and login
VerifyArgs ==
  [username : Usernames \cup {"bob", ""}, password : Passwords \cup {""}]

\* WebAuth.verify_credentials(username, password)
VerifyCall(a) ==
  /\ op' = [kind |-> "verify", tok |-> NoToken, at |-> now, args |-> a,
            pre |-> None,
            res |-> verify_credentials(users, legacy, a.username, a.password)]
  /\ UNCHANGED <<storeVars, purged, concVars, webVars>>

\* WebAuth.login(request_handler, username, password); tok is the session
\* id of the Set-Cookie header it wrote (NoToken: none)
LoginCall(a) ==
  /\ LET r == login(sessions, nextTok, users, legacy, now,
                    a.username, a.password) IN
       /\ r.issued <= MaxSessions
       /\ sessions' = r.store
       /\ nextTok' = r.issued
       /\ op' = [kind |-> "login", tok |-> r.cookie, at |-> now, args |-> a,
                 pre |-> None, res |-> r.result]
  /\ UNCHANGED <<now, purged, concVars, webVars>>

\* the credential resolver and login called with every pair of values, over
\* every credential store and legacy configuration
SpecVerify ==
  AuthInit /\ [][
    \/ \E a \in VerifyArgs : VerifyCall(a)
    \/ \E a \in VerifyArgs : LoginCall(a)
    \/ Tick
  ]_vars

\* C15: login(username, password) returns what verify(username, password)
\* returns; when that is an identity, exactly one session is added to the
\* store, it holds that identity, and a Set-Cookie with its token is
\* emitted; when it is absent, the store is unchanged and no Set-Cookie is
\* emitted.
C15_LoginMirrorsVerify ==
  [][(op'.kind = "login" /\ now' = now) =>
       LET v == verify_credentials(users, legacy, op'.args.username,
                                   op'.args.password) IN
         /\ op'.res = v
         /\ IF v # None
              THEN /\ Promoted(v)
                   /\ \A k \in DOMAIN sessions : sessions'[k] = sessions[k]
                   /\ op'.tok = nextTok'
              ELSE /\ sessions' = sessions
                   /\ nextTok' = nextTok
                   /\ op'.tok = NoToken]_vars

\* C15 witness: a second login succeeded, as alice; the store holds two
\* sessions and the newer one is alice's and is the one in the cookie
C15_Witness ==
  /\ op.kind = "login" /\ op.args.username = "alice"
  /\ op.res = [user_id |-> 2, username |-> "alice", is_admin |-> FALSE]
  /\ DOMAIN sessions = {1, 2} /\ op.tok = 2
  /\ SessionUser(sessions[2]) = op.res


\* both values of the legacy credential are set
LegacyConfigured == legacy.username # "" /\ legacy.password # ""

\* C16: with no account registered and a legacy credential (u, p)
\* configured, verify(u, p) is {user_id: 0, username: u, is_admin: true}
\* and verify of any other username or password is absent; with no legacy
\* credential configured (username or password empty) and no account of
\* the given name, verify is absent for every input.
C16_LegacyVerify ==
  op.kind = "verify" =>
    /\ (users = <<>> /\ LegacyConfigured) =>
         op.res = IF op.args.username = legacy.username
                      /\ op.args.password = legacy.password
                    THEN [user_id |-> 0, username |-> legacy.username,
                          is_admin |-> TRUE]
                    ELSE None
    /\ (~LegacyConfigured /\ op.args.username \notin DOMAIN users) =>
         op.res = None

\* C16 witness: no account, legacy credential (admin, pw1): verify of it
\* has returned the legacy administrator
C16_Witness ==
  /\ users = <<>> /\ legacy = [username |-> "admin", password |-> "pw1"]
  /\ op.kind = "verify"
  /\ op.args = [username |-> "admin", password |-> "pw1"]
  /\ op.res = [user_id |-> 0, username |-> "admin", is_admin |-> TRUE]

\* C17: with no legacy credential configured, verify(username, password)
\* is {user_id: account.id, username, is_admin: account.is_admin} when the
\* store holds an enabled account of that name whose password verifies,
\* and absent otherwise (unknown name, disabled account, wrong password).
C17_AccountVerify ==
  (op.kind = "verify" /\ ~LegacyConfigured) =>
    LET u == op.args.username IN
      op.res = IF u \in DOMAIN users /\ users[u].enabled
                    /\ users[u].password = op.args.password
                 THEN [user_id |-> users[u].id, username |-> u,
                       is_admin |-> users[u].is_admin]
                 ELSE None

\* C17 witness: the right password of a disabled account has been refused
C17_Witness ==
  /\ ~LegacyConfigured
  /\ op.kind = "verify" /\ op.args.username = "alice"
  /\ "alice" \in DOMAIN users /\ ~users["alice"].enabled
  /\ users["alice"].password = op.args.password
  /\ op.res = None


\* C24: with a legacy credential configured, a pair that verifies against
\* an enabled account resolves to that account's id and role, also when
\* the pair is the legacy credential; a pair that fails against the
\* accounts (no such name, disabled, wrong password) and is exactly the
\* legacy credential resolves to {user_id: 0, username, is_admin: true}.
C24_StoreBeforeLegacy ==
  (op.kind = "verify" /\ LegacyConfigured) =>
    LET u == op.args.username
        p == op.args.password
        verifies == /\ u \in DOMAIN users /\ users[u].enabled
                    /\ users[u].password = p
    IN /\ verifies =>
            op.res = [user_id |-> users[u].id, username |-> u,
                      is_admin |-> users[u].is_admin]
       /\ (~verifies /\ u = legacy.username /\ p = legacy.password) =>
            op.res = [user_id |-> 0, username |-> u, is_admin |-> TRUE]

\* C24 witness: the legacy credential is the name and password of alice's
\* enabled account, and verify of it has returned alice, who is no
\* administrator
C24_Witness ==
  /\ legacy = [username |-> "alice", password |-> "pw1"]
  /\ "alice" \in DOMAIN users /\ users["alice"].enabled
  /\ op.kind = "verify" /\ op.args = legacy
  /\ op.res = [user_id |-> 2, username |-> "alice", is_admin |-> FALSE]

\* the non-empty (username, password) pairs that fail verification now: an
\* unknown username, a wrong password or a disabled account
FailingArgs ==
  { a \in VerifyArgs :
      /\ a.username # "" /\ a.password # ""
      /\ verify_credentials(users, legacy, a.username, a.password) = None }

\* all that the server does for request q carrying credentials a in a
\* Basic-Auth header: the stores afterwards and the response, the request's
\* own header left out
GateOutcome(method, q, a) ==
  LET r == [q EXCEPT !.method = method,
                     !.auth = BasicAuth(a.username, a.password)]
      d == IF method = "GET"
             THEN dispatch(sessions, nextTok, users, legacy, now, r)
             ELSE dispatch_post(sessions, nextTok, users, legacy, now, r)
  IN [d EXCEPT !.conn.auth = NoAuth]

\* C18: a failed login does not reveal why it failed.  Whatever two pairs
\* of non-empty values fail verification (unknown username, wrong password,
\* disabled account), the login endpoint answers both with the same status
\* and body and leaves the same state, and so does the gate when the pairs
\* come as Basic-Auth credentials.
C18_FailureIndistinguishable ==
  \A a \in FailingArgs, b \in FailingArgs, c \in Conns :
    /\ Running(c, "handle_login") =>
         handle_login(sessions, nextTok, users, legacy, now, conn[c],
                      a.username, a.password)
           = handle_login(sessions, nextTok, users, legacy, now, conn[c],
                          b.username, b.password)
    /\ conn[c].pc # "handler" =>
         /\ GateOutcome("GET", Request("GET", "/", conn[c].cookie, NoAuth), a)
              = GateOutcome("GET", Request("GET", "/", conn[c].cookie, NoAuth), b)
         /\ GateOutcome("POST", Request("POST", "/update", conn[c].cookie, NoAuth), a)
              = GateOutcome("POST", Request("POST", "/update", conn[c].cookie, NoAuth), b)

\* C18 witness: with alice disabled, the administrator enabled and nobody
\* called bob, a login has been refused
C18_Witness ==
  \E c \in Conns :
    /\ conn[c].pc = "done" /\ conn[c].handler = "handle_login"
    /\ conn[c].status = 401 /\ conn[c].error = "wrong username or password"
    /\ { [username |-> "bob", password |-> "pw1"],
         [username |-> "admin", password |-> "pw2"],
         [username |-> "alice", password |-> "pw1"] } \subseteq FailingArgs
    /\ "alice" \in DOMAIN users /\ users["admin"].enabled


\* C19: an absent or malformed Authorization header (no header, another
\* scheme, bad base64, non-UTF8 bytes, no colon) is no credentials: parsing
\* gives absent, and with authentication enabled and no valid session the
\* check is Unauthenticated, creates no session, sets no cookie, and the
\* client gets the gate's ordinary refusal (302 or 401), not a 500.
C19_MalformedIsNoCredentials ==
  [][\A c \in Conns :
       (enabled(users, legacy) /\ ~ValidSession(c)
          /\ conn[c].auth.kind # "basic" /\ RouterChecks(c)) =>
         /\ parse_basic_auth(conn[c].auth) = None
         /\ NoneCreated
         /\ conn'[c].gate = "fail"
         /\ conn'[c].user = None
         /\ conn'[c].cookies = <<>>
         /\ conn'[c].pc = "done" /\ conn'[c].by = "gate"
         /\ conn'[c].status \in {302, 401}]_vars

\* C19 witness: in legacy mode a header whose payload is not UTF-8 has
\* been answered with the Basic challenge, and the store is empty
C19_Witness ==
  \E c \in Conns :
    /\ users = <<>> /\ legacy = [username |-> "admin", password |-> "pw1"]
    /\ conn[c].auth = NonUtf8
    /\ conn[c].gate = "fail" /\ conn[c].status = 401 /\ conn[c].challenge
    /\ sessions = <<>>


\* ------------------------------------------- credential store failures
\* the database becomes unreachable for some methods of UserService, or
\* reachable again
StoreFault(D) ==
  /\ D # down
  /\ down' = D
  /\ UNCHANGED <<storeVars, traceVars, concVars, users, nextUid, legacy, buffer,
               conn>>

\* the requests of SpecAuth while methods of the credential store start
\* and stop raising, also between the router's check and the handler's
SpecFail ==
  AuthInit /\ [][
    \/ \E D \in SUBSET {"list_users", "verify_user"} : StoreFault(D)
    \/ AuthStep("c1")
    \/ GateRaises("c1", "GET", "/")
    \/ GateRaises("c1", "POST", "/update")
    \/ HandleRaises("c1")
    \/ LoginRaises("c1")
  ]_vars


\* a method of the credential store that the check of the request of
\* connection c calls raises: list_users, called first in every check, or
\* verify_user, called for well-formed credentials when authentication is
\* enabled and the cookie names no valid session
StoreCallFails(c) ==
  \/ "list_users" \in down
  \/ /\ "verify_user" \in down
     /\ enabled(users, legacy)
     /\ ~ValidSession(c)
     /\ conn[c].auth.kind = "basic"

CookieInit ==
  /\ sessions = <<>> /\ nextTok = 0 /\ now = 0
  /\ purged = {} /\ heap = <<>> /\ NoWeb
  /\ thr = [t \in Threads |-> IdleThread]
  /\ \E n \in 0 .. MaxLen : \E h \in [1 .. n -> {"s", "S", "=", ";", " "}] :
       op = [kind |-> "request", tok |-> NoToken, at |-> 0,
             args |-> [header |-> h, key |-> <<>>], pre |-> None, res |-> None]

ParseCall(key) ==
  /\ op.kind = "request"
  /\ op' = [op EXCEPT !.kind = "_parse_cookie", !.args.key = key,
                      !.res = _parse_cookie(op.args.header, key)]
  /\ UNCHANGED <<storeVars, purged, concVars, webVars>>

SpecCookie ==
  CookieInit /\ [][ParseCall(<<"s">>) \/ ParseCall(<<"s", "S">>)]_vars


\* C21: for a Cookie header cut at its ';', a pair is what is left of a
\* piece without the blanks at its ends, its name the text before its
\* first '=' and its value the text after it.  _parse_cookie returns the
\* value of a pair whose name is exactly the name asked for, wherever the
\* pair stands, and returns None exactly when the header is empty or has
\* no pair of that name.
C21_CookieDecode ==
  op.kind = "_parse_cookie" =>
    LET h == op.args.header
        key == op.args.key
        cuts == {0, Len(h) + 1} \cup {i \in 1 .. Len(h) : h[i] = ";"}
        pieces == {p \in cuts \X cuts :
                     /\ p[1] < p[2]
                     /\ \A d \in cuts : ~(p[1] < d /\ d < p[2])}
        values ==
          {v \in UNION {{SubSeq(h, a, b) : b \in a - 1 .. Len(h)} :
                         a \in 1 .. Len(h) + 1} :
             \E p \in pieces : \E lo, hi \in p[1] + 1 .. p[2] - 1 :
               /\ h[lo] # " " /\ h[hi] # " "
               /\ \A i \in p[1] + 1 .. p[2] - 1 : (i < lo \/ i > hi) => h[i] = " "
               /\ \E e \in lo .. hi :
                    /\ h[e] = "="
                    /\ \A i \in lo .. e - 1 : h[i] # "="
                    /\ SubSeq(h, lo, e - 1) = key
                    /\ v = SubSeq(h, e + 1, hi)}
    IN /\ op.res = None <=> values = {}
       /\ op.res # None => op.res.value \in values
       /\ h = <<>> => op.res = None

\* the second pair of "S; s==" is named s, after a blank, and its value
\* holds a '='; the first pair's name differs in case only
C21_Witness ==
  /\ op.kind = "_parse_cookie"
  /\ op.args.header = <<"S", ";", " ", "s", "=", "=">>
  /\ op.args.key = <<"s">>
  /\ op.res = [value |-> <<"=">>]


\* ------------------------------------------- credential store changes
\* UserService.update_user / delete_user committed while the server runs
\* (an administrator's request on another connection, or a tool working on
\* the same database): the account's password is replaced, it loses the
\* administrator role, it is disabled, or it is deleted.  The first
\* account goes through all of these, the others are deleted only.
AccountEdit(id) ==
  /\ id \in UserIds(users)
  /\ LET u == users[NameOfId(users, id)] IN
       \/ /\ id = 1 /\ u.password # "pw2"
          /\ users' = update_user_password(users, id, "pw2").users
       \/ /\ id = 1 /\ u.is_admin
          /\ users' = update_user_role(users, id, FALSE).users
       \/ /\ id = 1 /\ u.enabled
          /\ users' = update_user_status(users, id, FALSE).users
       \/ users' = delete_user(users, id).users
  /\ UNCHANGED <<storeVars, traceVars, concVars, nextUid, legacy, down, buffer, conn>>

\* one connection logging in as the administrator, logging out and asking
\* for the index page with a session cookie, while accounts change and the
\* clock advances
SpecSnap ==
  RaceInit /\ [][
    \/ \E h \in RaceHeaders(nextTok) : Present("c1", h[1], h[2])
    \/ DoGet("c1", "/")
    \/ DoGet("c1", "/api/logout")
    \/ DoPost("c1", "/api/login")
    \/ HandleIndex("c1")
    \/ HandleLogin("c1", "admin", "pw1")
    \/ HandleLogout("c1")
    \/ \E id \in 1 .. MaxUsers : AccountEdit(id)
    \/ Tick
  ]_vars


\* this step is the router's dispatch of the request of connection c, past
\* the allowlist
RouterGates(c) ==
  /\ conn[c].pc # "handler" /\ conn'[c].method # ""
  /\ now' = now /\ users' = users
  /\ conn'[c].gate \notin {"none", "exempt", "bot"}

\* C23 as stated: a stored session keeps its user_id, username and
\* is_admin, and whatever has happened to the accounts, the router's check
\* and the handler's own check resolve a request whose cookie names a
\* session that is stored and not expired to that session's identity.
C23_SnapshotIdentity ==
  [][ /\ \A tok \in (DOMAIN sessions) \cap (DOMAIN sessions') :
           SessionUser(sessions'[tok]) = SessionUser(sessions[tok])
      /\ \A c \in Conns :
           ValidSession(c) =>
             /\ RouterGates(c) =>
                  /\ conn'[c].gate = "pass"
                  /\ conn'[c].user = SessionUser(sessions[conn[c].cookie])
             /\ HandlerChecks(c) =>
                  conn'[c].huser = SessionUser(sessions[conn[c].cookie]) ]_vars

\* C23 amended: the same, as long as authentication is enabled, that is
\* while an account is left in the credential store or the legacy
\* credential is configured.
C23_SnapshotWhileEnabled ==
  [][ /\ \A tok \in (DOMAIN sessions) \cap (DOMAIN sessions') :
           SessionUser(sessions'[tok]) = SessionUser(sessions[tok])
      /\ \A c \in Conns :
           (ValidSession(c) /\ enabled(users, legacy)) =>
             /\ RouterGates(c) =>
                  /\ conn'[c].gate = "pass"
                  /\ conn'[c].user = SessionUser(sessions[conn[c].cookie])
             /\ HandlerChecks(c) =>
                  conn'[c].huser = SessionUser(sessions[conn[c].cookie]) ]_vars

\* C23 witness: the index page has been served to the administrator's
\* session as an administrator, at a later time than the session's
\* creation, while the account is disabled, has lost the role and has
\* another password
C23_Witness ==
  /\ conn["c1"].pc = "done" /\ conn["c1"].handler = "handle_index"
  /\ conn["c1"].gate = "pass" /\ conn["c1"].user = conn["c1"].huser
  /\ conn["c1"].huser = [user_id |-> 1, username |-> "admin", is_admin |-> TRUE]
  /\ conn["c1"].cookie \in DOMAIN sessions
  /\ sessions[conn["c1"].cookie].last_access = now
  /\ sessions[conn["c1"].cookie].created_at < now
  /\ "admin" \in DOMAIN users
  /\ ~users["admin"].is_admin /\ ~users["admin"].enabled
  /\ users["admin"].password = "pw2"


\* C26 as stated: the response to a request carries at most one session
\* Set-Cookie, and a gated request without a cookie that the router
\* authenticated by its Basic-Auth credentials has added exactly one
\* session to the store when it is done, the handler's own check
\* included.
C26_OneSessionPerRequest ==
  \A c \in Conns :
    /\ Len(conn[c].cookies) <= 1
    /\ (conn[c].pc = "done" /\ conn[c].gate = "pass"
          /\ conn[c].cookie = NoToken) =>
         Cardinality({conn[c].cookies[i] : i \in DOMAIN conn[c].cookies}
                       \cap DOMAIN sessions) = 1


\* C27 as stated: with authentication enabled, a request that passed the
\* router's check and was served by a handler that makes its own check
\* was served under the identity the router resolved, never under the
\* guest identity, whatever other requests did between the two checks.
\* (huser = None: the handler's check found nobody, and handle_index goes
\* on as guest.)
C27_HandlerKeepsRouterIdentity ==
  \A c \in Conns :
    (conn[c].pc = "done" /\ conn[c].gate = "pass" /\ conn[c].by = "handler"
       /\ conn[c].status = 200
       /\ conn[c].handler \notin {"handle_login", "handle_logout"}
       /\ PlainStatuses(conn[c].handler) = {})
      => conn[c].huser = conn[c].user


\* ------------------------------------------- keep-alive connections
\* BaseHTTPRequestHandler.handle serves the requests of one connection
\* with one handler object until close_connection is set, which an
\* HTTP/1.1 request without "Connection: close" does not do.  send_header
\* appends to the object's _headers_buffer; end_headers (send_auth_required,
\* send_error) writes the buffer and empties it, while Response.send
\* copies the buffered lines into the response and leaves them there.
\* The next request on connection c arrives: what the request before left
\* in the buffer stays in it.
PresentKept(c, cookie, auth) ==
  /\ conn[c].pc # "handler"
  /\ LET flushed == \/ conn[c].by = "server"
                    \/ conn[c].by = "gate" /\ conn[c].body # "json"
         left == IF flushed THEN <<>> ELSE buffer[c] \o conn[c].cookies
     IN /\ Len(left) <= MaxBuffer
        /\ buffer' = [buffer EXCEPT ![c] = left]
  /\ conn' = [conn EXCEPT ![c] = Request("", "", cookie, auth)]
  /\ UNCHANGED <<storeVars, traceVars, concVars, users, nextUid, legacy, down>>

\* one keep-alive connection: login, logout and the index page, with a
\* session cookie or with Basic-Auth credentials, each request served
\* before the next arrives
SpecKeep ==
  RaceInit /\ [][
    \/ \E h \in RaceHeaders(nextTok) \cup {<<NoToken, BasicAuth("alice", "pw1")>>} :
         PresentKept("c1", h[1], h[2])
    \/ conn["c1"].pc = "idle" /\ DoGet("c1", "/")
    \/ conn["c1"].pc = "idle" /\ DoGet("c1", "/api/logout")
    \/ conn["c1"].pc = "idle" /\ DoPost("c1", "/api/login")
    \/ HandleIndex("c1")
    \/ \E u \in Usernames : HandleLogin("c1", u, "pw1")
    \/ HandleLogout("c1")
  ]_vars

\* C28 as stated: on a keep-alive connection, the response to a request
\* during which no session Set-Cookie was written (no login, no logout, no
\* Basic-Auth promotion) carries no Set-Cookie header, so no cookie that
\* an earlier request on the connection set or cleared and no session id
\* an earlier request created.  (A response sent by Response.send carries
\* the buffered lines followed by its own.)
C28_SetCookieOnlyInOwnResponse ==
  \A c \in Conns :
    (conn[c].pc = "done" /\ conn[c].by \in {"handler", "router"}
       /\ conn[c].cookies = <<>>)
      => buffer[c] = <<>>


\* C29: whenever a step adds a session to the store, authentication is
\* enabled and the session's (user_id, username, is_admin) is what
\* verify_credentials returns at that moment, for the credentials in the
\* Authorization header of the request being checked or for a form that
\* handle_login is being given; so no session is created for the guest of
\* disabled-auth mode, nor by a request whose credentials fail or do not
\* parse.
C29_SessionsComeFromVerify ==
  [][\A tok \in (DOMAIN sessions') \ (DOMAIN sessions) :
       LET id == SessionUser(sessions'[tok]) IN
         /\ enabled(users, legacy)
         /\ id # Guest
         /\ \E c \in Conns :
              /\ conn'[c] # conn[c]
              /\ IF conn[c].pc = "handler" /\ conn[c].handler = "handle_login"
                   THEN /\ conn'[c].huser = id
                        /\ \E a \in VerifyArgs :
                             verify_credentials(users, legacy, a.username,
                                                a.password) = id
                   ELSE LET credentials == parse_basic_auth(conn[c].auth) IN
                          /\ credentials # None
                          /\ verify_credentials(users, legacy,
                                                credentials.username,
                                                credentials.password) = id]_vars

\* C29 witness: alice's account is disabled and the legacy credential is
\* (alice, pw1); a request with these credentials in its Authorization
\* header passed the router's check, and the session created for it holds
\* the legacy administrator's identity
C29_Witness ==
  /\ legacy = [username |-> "alice", password |-> "pw1"]
  /\ "alice" \in DOMAIN users /\ ~users["alice"].enabled
  /\ conn["c1"].gate = "pass" /\ conn["c1"].auth = BasicAuth("alice", "pw1")
  /\ conn["c1"].cookies = <<1>> /\ 1 \in DOMAIN sessions
  /\ SessionUser(sessions[1]) = [user_id |-> 0, username |-> "alice", is_admin |-> TRUE]


\* C30: when handle_logout returns, every session but the one the
\* request's cookie names is stored as it was, last_access included, and
\* resolves as it did, other sessions of the same user too; no session is
\* added; and when the cookie names no session or an expired one, every
\* session that has not expired is stored as it was.
C30_LogoutTouchesOwnSessionOnly ==
  [][\A c \in Conns :
       (Returns(c) /\ conn[c].handler = "handle_logout") =>
         /\ DOMAIN sessions' \subseteq DOMAIN sessions
         /\ \A tok \in (DOMAIN sessions) \ {conn[c].cookie} :
              /\ tok \in DOMAIN sessions'
              /\ sessions'[tok] = sessions[tok]
              /\ get_session(sessions', tok, now').result
                   = get_session(sessions, tok, now).result
         /\ (conn[c].cookie \notin DOMAIN sessions
               \/ Expired(sessions[conn[c].cookie], now)) =>
              \A tok \in DOMAIN sessions :
                ~Expired(sessions[tok], now) =>
                  (tok \in DOMAIN sessions' /\ sessions'[tok] = sessions[tok])]_vars

\* C30 witness: the administrator logged in twice and, later, logged out
\* with the first session's cookie; the second session is stored with the
\* last_access of its creation
C30_Witness ==
  /\ LoggedOut("c1") /\ conn["c1"].cookie = 1
  /\ conn["c1"].huser # None /\ conn["c1"].huser.username = "admin"
  /\ DOMAIN sessions = {2} /\ sessions[2].username = "admin"
  /\ sessions[2].last_access = sessions[2].created_at
  /\ sessions[2].last_access < now

=============================================================================
